---- MODULE Spec2Model ----
(***************************************************************************)
(* Map-Overlay: Bentley-Ottmann sweep-line segment intersection, DCEL      *)
(* construction and planar-subdivision overlay.                            *)
(*                                                                         *)
(* Numbers are exact rationals <<n, d>> (d > 0, lowest terms).  All inputs *)
(* lie on a small integer grid, so two computed quantities are either      *)
(* equal or differ by far more than EPS = 1e-8: the test |a - b| < EPS of  *)
(* the source is equality here.  Quantities the source shifts by EPS (the  *)
(* status sort keys) are kept as pairs <<a, b>> standing for a + b*EPS and *)
(* are compared lexicographically.                                         *)
(***************************************************************************)
EXTENDS Integers, Sequences, FiniteSets, TLC

\* ------------------------------------------------------------------------
\* Rational arithmetic
\* ------------------------------------------------------------------------
Abs(n) == IF n < 0 THEN -n ELSE n

RECURSIVE Gcd(_, _)
Gcd(a, b) == IF b = 0 THEN a ELSE Gcd(b, a % b)

Rat(n, d) ==
    LET g == Gcd(Abs(n), Abs(d))
        s == IF d < 0 THEN -1 ELSE 1
    IN  <<(s * n) \div g, (s * d) \div g>>

R(n) == <<n, 1>>
Zero == <<0, 1>>
RAdd(a, b) == Rat(a[1] * b[2] + b[1] * a[2], a[2] * b[2])
RSub(a, b) == Rat(a[1] * b[2] - b[1] * a[2], a[2] * b[2])
RMul(a, b) == Rat(a[1] * b[1], a[2] * b[2])
RDiv(a, b) == Rat(a[1] * b[2], a[2] * b[1])
RNeg(a) == <<-a[1], a[2]>>
RLt(a, b) == a[1] * b[2] < b[1] * a[2]
RLe(a, b) == a[1] * b[2] <= b[1] * a[2]
\* abs(a - b) < EPS
Close(a, b) == a = b

\* float("inf"), the slope of a vertical line
Inf == <<1, 0>>
\* a + b*EPS, ordered lexicographically
KeyLt(k1, k2) == RLt(k1[1], k2[1]) \/ (k1[1] = k2[1] /\ RLt(k1[2], k2[2]))
KeyLe(k1, k2) == ~KeyLt(k2, k1)

\* ------------------------------------------------------------------------
\* Sequence helpers
\* ------------------------------------------------------------------------
SeqToSet(s) == {s[i] : i \in 1..Len(s)}

RECURSIVE SetToSeqs(_)
\* every listing of a finite set: the orders a Python set may iterate in
SetToSeqs(S) ==
    IF S = {} THEN {<<>>}
    ELSE UNION {{<<x>> \o t : t \in SetToSeqs(S \ {x})} : x \in S}

IndexOf(s, x) == CHOOSE i \in 1..Len(s) : s[i] = x /\ \A j \in 1..(i - 1) : s[j] # x
RemoveAt(s, i) == SubSeq(s, 1, i - 1) \o SubSeq(s, i + 1, Len(s))

\* ------------------------------------------------------------------------
\* Geometry primitives (structs/_geometry.py)
\* ------------------------------------------------------------------------
Point(x, y) == [x |-> x, y |-> y]
Pt(x, y) == Point(R(x), R(y))
\* the None of Optional[Point]
NoPoint == [x |-> <<0, 0>>, y |-> <<0, 0>>]

PointEq(p, q) == Close(p.x, q.x) /\ Close(p.y, q.y)

Line(m, q) == [m |-> m, q |-> q]
LineIsVertical(l) == l.m = Inf

\* Line.is_collinear: inf - inf is nan and nan < EPS is false
LineIsCollinear(l1, l2) ==
    /\ l1.m # Inf /\ l2.m # Inf
    /\ Close(l1.m, l2.m) /\ Close(l1.q, l2.q)

LineFromPoints(p1, p2) ==
    IF Close(p1.x, p2.x) THEN Line(Inf, p1.x)
    ELSE LET m == RDiv(RSub(p2.y, p1.y), RSub(p2.x, p1.x))
         IN  Line(m, RSub(p1.y, RMul(m, p1.x)))

LineIntersection(l1, l2) ==
    IF LineIsVertical(l1) /\ LineIsVertical(l2) THEN NoPoint
    ELSE IF LineIsVertical(l1) THEN Point(l1.q, RAdd(RMul(l2.m, l1.q), l2.q))
    ELSE IF LineIsVertical(l2) THEN Point(l2.q, RAdd(RMul(l1.m, l2.q), l1.q))
    ELSE IF Close(l1.m, l2.m) THEN NoPoint
    ELSE LET x == RDiv(RSub(l2.q, l1.q), RSub(l1.m, l2.m))
         IN  Point(x, RAdd(RMul(l1.m, x), l1.q))

\* Segment ids: "" for a plain segment; in overlay the EdgeId "s1_e_3_0" is
\* <<<<"s1">>, 3, 0>> and "dcel_s1_e_3_8" is <<<<"dcel", "s1">>, 3, 8>>
NoId == << <<"">>, 0, 0 >>
\* id.split("_")[0]
IdPrefix(id) == id[1][1]
Segment(p1, p2, id) == [p1 |-> p1, p2 |-> p2, id |-> id]
Seg(x1, y1, x2, y2) == Segment(Pt(x1, y1), Pt(x2, y2), NoId)
\* the None of Optional[Segment]
NoSeg == Segment(NoPoint, NoPoint, NoId)
SegLine(s) == LineFromPoints(s.p1, s.p2)

SegEq(s, t) ==
    \/ PointEq(s.p1, t.p1) /\ PointEq(s.p2, t.p2)
    \/ PointEq(s.p1, t.p2) /\ PointEq(s.p2, t.p1)

SegIsHorizontal(s) == Close(s.p1.y, s.p2.y)

OrderByY(s) ==
    IF RLt(s.p2.y, s.p1.y) THEN <<s.p1, s.p2>>
    ELSE IF RLt(s.p1.y, s.p2.y) THEN <<s.p2, s.p1>>
    ELSE IF RLt(s.p1.x, s.p2.x) THEN <<s.p1, s.p2>>
    ELSE <<s.p2, s.p1>>

OrderByX(s) ==
    IF RLt(s.p1.x, s.p2.x) THEN <<s.p1, s.p2>>
    ELSE IF RLt(s.p2.x, s.p1.x) THEN <<s.p2, s.p1>>
    ELSE IF RLt(s.p2.y, s.p1.y) THEN <<s.p1, s.p2>>
    ELSE <<s.p2, s.p1>>

Contains(s, p) ==
    LET Inside(dx, dy, px, py) ==
            /\ RSub(RMul(py, dx), RMul(px, dy)) = Zero
            /\ ~RLt(RAdd(RMul(px, dx), RMul(py, dy)), Zero)
            /\ ~RLt(RAdd(RMul(dx, dx), RMul(dy, dy)), RAdd(RMul(px, dx), RMul(py, dy)))
    IN  IF PointEq(p, s.p1) \/ PointEq(p, s.p2) THEN TRUE
        ELSE Inside(RSub(s.p2.x, s.p1.x), RSub(s.p2.y, s.p1.y),
                    RSub(p.x, s.p1.x), RSub(p.y, s.p1.y))

SegIsCollinear(s, t) ==
    /\ LineIsCollinear(SegLine(s), SegLine(t))
    /\ (Contains(s, t.p1) \/ Contains(s, t.p2) \/ Contains(t, s.p1) \/ Contains(t, s.p2))

SharedEndpoint(s, t) ==
    IF PointEq(s.p1, t.p1) \/ PointEq(s.p1, t.p2) THEN s.p1
    ELSE IF PointEq(s.p2, t.p1) \/ PointEq(s.p2, t.p2) THEN s.p2
    ELSE NoPoint

\* Segment.intersection raises CollinearityError
IntersectionRaises(s, t) == SegIsCollinear(s, t) /\ SharedEndpoint(s, t) = NoPoint

SegIntersection(s, t) ==
    LET OnBoth(li) ==
            IF li # NoPoint /\ Contains(s, li) /\ Contains(t, li) THEN li ELSE NoPoint
    IN  IF SegIsCollinear(s, t) THEN SharedEndpoint(s, t)
        ELSE OnBoth(LineIntersection(SegLine(s), SegLine(t)))


\* Segment.is_colinear, the name naive_intersection and the sweep call
SegIsColinear(s, t) == SegIsCollinear(s, t)

\* Segment.colinear_intersection: the overlap [max(left endpoints), min(right endpoints)]
ColinearIntersection(s, t) ==
    LET a == OrderByX(s)
        b == OrderByX(t)
        left == IF RLt(b[1].x, a[1].x) THEN a[1] ELSE b[1]
        right == IF RLt(a[2].x, b[2].x) THEN a[2] ELSE b[2]
    IN  <<left, right>>

\* ------------------------------------------------------------------------
\* Dictionaries keyed by Point / Segment, kept in insertion order
\* ------------------------------------------------------------------------
\* dict lookup needs equal hashes and ==; Segment.__hash__ hashes (p1, p2, line) in order
SameKey(k, s) == PointEq(k.p1, s.p1) /\ PointEq(k.p2, s.p2)

PtIdx(d, p) ==
    IF \E i \in 1..Len(d) : PointEq(d[i].point, p)
    THEN CHOOSE i \in 1..Len(d) : PointEq(d[i].point, p)
    ELSE 0

SegIdx(d, s) ==
    IF \E i \in 1..Len(d) : SameKey(d[i].seg, s)
    THEN CHOOSE i \in 1..Len(d) : SameKey(d[i].seg, s)
    ELSE 0

\* x in list, for lists of segments and of points
SegIn(s, l) == \E i \in 1..Len(l) : SegEq(l[i], s)
PtIn(p, l) == \E i \in 1..Len(l) : PointEq(l[i], p)

RECURSIVE AddSegments(_, _)
\* EventPoint.add_segments
AddSegments(l, new) ==
    IF new = <<>> THEN l
    ELSE AddSegments(IF SegIn(Head(new), l) THEN l ELSE Append(l, Head(new)), Tail(new))

\* ------------------------------------------------------------------------
\* Event queue (structs/_tree.py used as an ordered set of EventPoint)
\* ------------------------------------------------------------------------
EventPoint(type, point, segs) == [type |-> type, point |-> point, segments |-> segs]

\* EventPoint.__lt__ on the points of two events
EventLt(p, q) == IF Close(p.y, q.y) THEN RLt(q.x, p.x) ELSE RLt(p.y, q.y)

QueueSearch(q, p) == {e \in q : PointEq(e.point, p)}
QueueMaximum(q) == CHOOSE e \in q : \A f \in q : f = e \/ EventLt(f.point, e.point)
\* faulty variant of maximum: the root of an empty tree is handed back as a node
QueueMaximumOfEmptyReturns(q) == FALSE
\* maximum(root) of an empty tree reads .right of the NullNode root, which has no
\* such attribute
QueueMaximumRaises(q) == q = {}
\* faulty variant of delete: the tree is left as it was
QueueDeleteKeeps(q, p) == q
QueueDelete(q, p) == {e \in q : ~PointEq(e.point, p)}
\* insert returns the existing node when an equal value is stored
QueueInsert(q, e) == IF QueueSearch(q, e.point) # {} THEN q ELSE q \cup {e}

\* search, then delete and reinsert as INTERSECTION, or insert
\* faulty variant of the collision handling: the new event takes the place of the
\* old one without the segments the old one listed
QueueMergeForgetsOld(q, type, p, segs) ==
    IF QueueSearch(q, p) # {}
    THEN QueueInsert(QueueDelete(q, p), EventPoint("INTERSECTION", p, segs))
    ELSE QueueInsert(q, EventPoint(type, p, segs))

\* search, then delete and insert of the merged event, or insert of the new one
QueueMerge(q, type, p, segs) ==
    LET existing == QueueSearch(q, p)
    IN  IF existing # {}
        THEN LET old == CHOOSE e \in existing : TRUE
             IN  QueueInsert(QueueDelete(q, p),
                             EventPoint("INTERSECTION", p, AddSegments(old.segments, segs)))
        ELSE QueueInsert(q, EventPoint(type, p, segs))

RECURSIVE InitializeEventQueue(_, _)
InitializeEventQueue(segs, q) ==
    IF segs = <<>> THEN q
    ELSE LET s == Head(segs)
             se == OrderByY(s)
             q1 == QueueMerge(q, "START", se[1], <<s>>)
             q2 == QueueMerge(q1, "END", se[2], <<s>>)
         IN  InitializeEventQueue(Tail(segs), q2)

\* faulty variant of NewEventPoint: only points strictly below the sweep line are
\* enqueued, the ones on it to the right of the event are forgotten
NewEventPointBelowOnly(left, right, sweep_q, p) ==
    LET Unseen(ip) == IF ip # NoPoint /\ RLt(ip.y, sweep_q) THEN ip ELSE NoPoint
    IN  IF left = NoSeg \/ right = NoSeg THEN NoPoint
        ELSE Unseen(SegIntersection(left, right))

\* faulty variant of NewEventPoint: the intersection point is enqueued wherever it
\* lies, also above the sweep line or left of the event
NewEventPointAnywhere(left, right, sweep_q, p) ==
    IF left = NoSeg \/ right = NoSeg THEN NoPoint
    ELSE SegIntersection(left, right)

\* faulty variant of NewEventPoint: a point on the sweep line is enqueued also
\* when it is the event point or left of it
NewEventPointOnLineToo(left, right, sweep_q, p) ==
    LET Unseen(ip) ==
            IF ip = NoPoint THEN NoPoint
            ELSE IF RLt(ip.y, sweep_q) \/ Close(ip.y, sweep_q) THEN ip
            ELSE NoPoint
    IN  IF left = NoSeg \/ right = NoSeg THEN NoPoint
        ELSE Unseen(SegIntersection(left, right))

\* _find_new_event: the point to enqueue, or NoPoint
NewEventPoint(left, right, sweep_q, p) ==
    LET Unseen(ip) ==
            IF ip = NoPoint THEN NoPoint
            ELSE IF RLt(ip.y, sweep_q) THEN ip
            ELSE IF Close(ip.y, sweep_q) /\ RLt(p.x, ip.x) THEN ip
            ELSE NoPoint
    IN  IF left = NoSeg \/ right = NoSeg THEN NoPoint
        ELSE Unseen(SegIntersection(left, right))

FindNewEventRaises(left, right) ==
    left # NoSeg /\ right # NoSeg /\ IntersectionRaises(left, right)

FindNewEvent(q, left, right, sweep_q, p) ==
    LET Enqueue(ip) ==
            IF ip = NoPoint THEN q
            ELSE QueueMerge(q, "INTERSECTION", ip, <<left, right>>)
    IN  Enqueue(NewEventPoint(left, right, sweep_q, p))

\* ------------------------------------------------------------------------
\* Sweep status (structs/_intersection.py, class Status)
\* ------------------------------------------------------------------------
Scored(seg, key) == [seg |-> seg, key |-> key]

\* Status._sort_key on the line y = q + eps*EPS, for a non-horizontal segment
SortKey(seg, q, eps) ==
    LET Cut(l) ==
            IF LineIsVertical(l) THEN <<l.q, Zero>>
            ELSE <<RDiv(RSub(q, l.q), l.m), RDiv(R(eps), l.m)>>
    IN  Cut(SegLine(seg))

RECURSIVE InsertSorted(_, _)
InsertSorted(s, x) ==
    IF s = <<>> THEN <<x>>
    ELSE IF KeyLt(x.key, s[1].key) THEN <<x>> \o s
    ELSE <<s[1]>> \o InsertSorted(Tail(s), x)

RECURSIVE SortedFrom(_, _)
SortedFrom(items, acc) ==
    IF items = <<>> THEN acc ELSE SortedFrom(Tail(items), InsertSorted(acc, Head(items)))

\* sorted(status, key=score): stable
StableSort(items) == SortedFrom(items, <<>>)

\* the index the loop of _sort leaves in horizontal_segment_idx (0: None)
HorizontalIdx(segs) ==
    IF \E i \in 1..Len(segs) : SegIsHorizontal(segs[i])
    THEN CHOOSE i \in 1..Len(segs) :
            SegIsHorizontal(segs[i]) /\ \A j \in (i + 1)..Len(segs) : ~SegIsHorizontal(segs[j])
    ELSE 0

StatusSort(segs, q, eps, usePrev, prev) ==
    LET \* lines 183-190: a horizontal segment without a previous score goes last
        WithHorizontal(sorted, h) ==
            IF h # 0 /\ ~usePrev
            THEN IF Len(sorted) > 0
                 THEN Append(sorted, Scored(segs[h], <<sorted[Len(sorted)].key[1],
                                                       RAdd(sorted[Len(sorted)].key[2], R(1))>>))
                 ELSE <<Scored(segs[h], <<OrderByX(segs[h])[1].x, R(-1)>>)>>
            ELSE sorted
        \* lines 173-179: a horizontal segment keeps its previous score
        WithPrev(scored, h) ==
            IF h # 0 /\ usePrev THEN Append(scored, Scored(segs[h], prev[h])) ELSE scored
        \* lines 167-171
        Score(nh) == [i \in 1..Len(nh) |-> Scored(nh[i], SortKey(nh[i], q, eps))]
        Sort(h) ==
            WithHorizontal(
                StableSort(WithPrev(Score(SelectSeq(segs, LAMBDA s : ~SegIsHorizontal(s))), h)), h)
    IN  Sort(HorizontalIdx(segs))

RECURSIVE StatusMerge(_, _)
StatusMerge(l1, l2) ==
    IF l1 = <<>> THEN l2
    ELSE IF l2 = <<>> THEN l1
    ELSE IF KeyLt(l1[1].key, l2[1].key)
         THEN <<l1[1]>> \o StatusMerge(Tail(l1), l2)
         ELSE <<l2[1]>> \o StatusMerge(l1, Tail(l2))

\* faulty variant of Status.add: the segments already in the status keep the
\* scores of the previous reference line
StatusAddKeepsOldScores(st, sc, segs, q, eps) ==
    StatusMerge([i \in 1..Len(st) |-> Scored(st[i], sc[i])],
                StatusSort(segs, q, eps, FALSE, <<>>))

\* Status.add: a sequence of scored segments
StatusAdd(st, sc, segs, q, eps) ==
    StatusMerge(StatusSort(st, q, eps, TRUE, sc), StatusSort(segs, q, eps, FALSE, <<>>))

StatusIndex(st, s) ==
    IF SegIn(s, st) THEN CHOOSE i \in 1..Len(st) : SegEq(st[i], s) /\ \A j \in 1..(i - 1) : ~SegEq(st[j], s)
    ELSE 0

RECURSIVE StatusRemove(_, _)
\* Status.remove on the list of scored segments
StatusRemove(items, segs) ==
    IF segs = <<>> THEN items
    ELSE LET i == StatusIndex([k \in 1..Len(items) |-> items[k].seg], Head(segs))
         IN  StatusRemove(RemoveAt(items, i), Tail(segs))

StatusRemoveRaises(st, segs) == \E i \in 1..Len(segs) : ~SegIn(segs[i], st)

\* Status.neighbours raises when a segment of the status lies on the line y = p.y
NeighboursRaises(st, p) ==
    \E i \in 1..Len(st) : SegIsHorizontal(st[i])

Neighbours(st, p) ==
    LET FirstOf(srt, hits) ==
            IF hits = {} THEN <<NoSeg, NoSeg>>
            ELSE LET i == CHOOSE k \in hits : \A j \in hits : k <= j
                 IN  <<srt[i].seg, srt[i + 1].seg>>
        Around(srt) ==
            FirstOf(srt, {i \in 1..(Len(srt) - 1) :
                             RLe(srt[i].key[1], p.x) /\ RLe(p.x, srt[i + 1].key[1])})
    IN  Around(StableSort([i \in 1..Len(st) |-> Scored(st[i], SortKey(st[i], p.y, 0))]))

\* ------------------------------------------------------------------------
\* State
\* ------------------------------------------------------------------------
VARIABLES
    mode,           \* "intersection" or "overlay": the two modes of __main__.py
    pc,             \* position in the run
    err,            \* "none" or the exception that ended the run
    setOrder,       \* the order in which sets of segments iterate in this run
    segments,       \* the list handed to naive_intersection / sweep_line_intersection
    naiveRes,       \* the list returned by naive_intersection
    queue,          \* event_queue
    status,         \* Status.status
    scores,         \* Status._segments_scores
    intersections,  \* dict Point -> list of Segment, in insertion order
    splitted,       \* dict Segment -> list of Point, in insertion order
    segments1,      \* the polygons of the first subdivision
    segments2,      \* the polygons of the second subdivision
    dcel1,          \* DoublyConnectedEdgeList(segments1, "s1")
    dcel2,          \* DoublyConnectedEdgeList(segments2, "s2")
    overlay_dcel,   \* the DCEL overlay() builds and returns
    aliased,        \* ids of the vertices of overlay_dcel that are an operand's own Vertex object
    overlapping_points, \* dict Point -> VertexId of s2
    splitted_edges, \* dict EdgeId -> list of (edge, twin), in insertion order
    pos,            \* position in the loop overlay() is running
    tree,           \* a RedBlackTree
    held,           \* the values inserted in tree and not since deleted
    lastOp,         \* the last call of insert or delete on tree
    points,         \* two Points compared and hashed
    hashes,         \* the value of their comparison and their hashes
    call            \* the arguments of a call of _find_new_event

sweepVars == <<segments, naiveRes, queue, status, scores, intersections, splitted>>

\* ------------------------------------------------------------------------
\* lists_union (utils/_misc.py): list(set(a) | set(b)), in set iteration order
\* ------------------------------------------------------------------------
PrefixRank(pfx) ==
    CASE pfx = "" -> 0 [] pfx = "s1" -> 1 [] pfx = "s2" -> 2 [] OTHER -> 3

\* a total order on the segments of a run, standing for the order of their hashes
HashLess(a, b) ==
    LET ka == <<R(PrefixRank(IdPrefix(a.id))), a.p1.y, a.p1.x, a.p2.y, a.p2.x>>
        kb == <<R(PrefixRank(IdPrefix(b.id))), b.p1.y, b.p1.x, b.p2.y, b.p2.x>>
    IN  \E i \in 1..5 : RLt(ka[i], kb[i]) /\ \A j \in 1..(i - 1) : ka[j] = kb[j]

RECURSIVE ListOf(_, _)
ListOf(S, ord) ==
    IF S = {} THEN <<>>
    ELSE LET x == CHOOSE y \in S : \A z \in S \ {y} :
                      IF ord = "asc" THEN HashLess(y, z) ELSE HashLess(z, y)
         IN  <<x>> \o ListOf(S \ {x}, ord)

ListsUnion(l1, l2, ord) == ListOf(SeqToSet(l1) \cup SeqToSet(l2), ord)

\* ------------------------------------------------------------------------
\* naive_intersection (algorithms/_intersection.py)
\* ------------------------------------------------------------------------
RECURSIVE AppendNew(_, _)
AppendNew(l, pts) ==
    IF pts = <<>> THEN l
    ELSE AppendNew(IF PtIn(Head(pts), l) THEN l ELSE Append(l, Head(pts)), Tail(pts))

NaivePair(acc, a, b) ==
    IF SegIsColinear(a, b) THEN AppendNew(acc, ColinearIntersection(a, b))
    ELSE LET ip == SegIntersection(a, b)
         IN  IF ip # NoPoint THEN AppendNew(acc, <<ip>>) ELSE acc

RECURSIVE NaiveFrom(_, _, _, _)
NaiveFrom(segs, i, j, acc) ==
    IF i > Len(segs) THEN acc
    ELSE IF j > Len(segs) THEN NaiveFrom(segs, i + 1, i + 2, acc)
    ELSE NaiveFrom(segs, i, j + 1, NaivePair(acc, segs[i], segs[j]))

NaiveIntersection(segs) == NaiveFrom(segs, 1, 2, <<>>)

\* line 29: Segment.intersection raises for a pair that line 22 did not take
NaiveRaises(segs) ==
    \E i, j \in 1..Len(segs) :
        i < j /\ ~SegIsColinear(segs[i], segs[j]) /\ IntersectionRaises(segs[i], segs[j])

\* ------------------------------------------------------------------------
\* sweep_line_intersection: one iteration of the main loop
\* ------------------------------------------------------------------------
\* splitted_segments[seg].append(p) if absent, creating the key if needed
SplitAppend(d, seg, p) ==
    LET i == SegIdx(d, seg)
    IN  IF i = 0 THEN Append(d, [seg |-> seg, pts |-> <<p>>])
        ELSE IF PtIn(p, d[i].pts) THEN d
        ELSE [d EXCEPT ![i].pts = Append(@, p)]

RECURSIVE SplitAppendAll(_, _, _)
SplitAppendAll(d, segs, p) ==
    IF segs = <<>> THEN d
    ELSE SplitAppendAll(SplitAppend(d, Head(segs), p), Tail(segs), p)

\* splitted_segments[seg] = pts
SplitSet(d, seg, pts) ==
    LET i == SegIdx(d, seg)
    IN  IF i = 0 THEN Append(d, [seg |-> seg, pts |-> pts])
        ELSE [d EXCEPT ![i].pts = pts]

\* intersections[p] = segs
InterSet(d, p, segs) ==
    LET i == PtIdx(d, p)
    IN  IF i = 0 THEN Append(d, [point |-> p, segs |-> segs])
        ELSE [d EXCEPT ![i].segs = segs]

\* the horizontal hack's update of intersections[ip] with s1 and s2
InterHack(d, ip, s1, s2) ==
    LET i == PtIdx(d, ip)
    IN  IF i = 0 THEN Append(d, [point |-> ip, segs |-> <<s1, s2>>])
        ELSE [d EXCEPT ![i].segs = AddSegments(@, <<s1, s2>>)]

\* body of the double loop over all_segments
HackPair(st, a, b) ==
    IF SegIsColinear(a, b) /\ SegIsHorizontal(a) /\ SegIsHorizontal(b)
    THEN LET first == IF RLt(a.p1.x, b.p1.x) THEN a ELSE b
             second == IF RLt(a.p1.x, b.p1.x) THEN b ELSE a
             s1 == Segment(OrderByX(first)[1], OrderByX(first)[2], NoId)
             s2 == Segment(OrderByX(second)[1], OrderByX(second)[2], NoId)
             ci == ColinearIntersection(s1, s2)
             sp == SplitSet(SplitSet(st.split, s1, <<s1.p1, ci[1], s1.p2>>),
                            s2, <<s2.p1, ci[2], s2.p2>>)
             it == InterHack(InterHack(st.inter, ci[1], s1, s2), ci[2], s1, s2)
         IN  [inter |-> it, split |-> sp]
    ELSE st

RECURSIVE HackFrom(_, _, _, _)
HackFrom(all, i, j, st) ==
    IF i > Len(all) THEN st
    ELSE IF j > Len(all) THEN HackFrom(all, i + 1, i + 2, st)
    ELSE HackFrom(all, i, j + 1, HackPair(st, all[i], all[j]))

\* lines 70-128: record the intersection at p
RecordIntersection(inter, split, all, p) ==
    IF Len(all) > 1
    THEN HackFrom(all, 1, 2, [inter |-> InterSet(inter, p, all),
                              split |-> SplitAppendAll(split, all, p)])
    ELSE [inter |-> inter, split |-> split]

\* Status.neighbours: "none" or the exception intersection_with_line raises
NeighboursError(st, p) ==
    IF \E i \in 1..Len(st) : SegIsHorizontal(st[i]) /\ Close(st[i].p1.y, p.y)
    THEN "CollinearityError"
    ELSE IF \E i \in 1..Len(st) : SegIsHorizontal(st[i]) THEN "ValueError"
    ELSE "none"

\* lines 136-180: the neighbour tests; the new queue and the exception raised, if any
NeighbourTests(q0, st, toCheck, p) ==
    LET \* lines 138-141
        Plain(n) ==
            IF FindNewEventRaises(n[1], n[2])
            THEN [q |-> q0, err |-> "CollinearityError"]
            ELSE [q |-> FindNewEvent(q0, n[1], n[2], p.y, p), err |-> "none"]
        NoSegments(e) ==
            IF e # "none" THEN [q |-> q0, err |-> e] ELSE Plain(Neighbours(st, p))
        \* lines 163-180
        Rightmost(q1, rm, rightN) ==
            IF FindNewEventRaises(st[rm], rightN)
            THEN [q |-> q1, err |-> "CollinearityError"]
            ELSE [q |-> FindNewEvent(q1, st[rm], rightN, p.y, p), err |-> "none"]
        \* lines 144-161
        Leftmost(lm, leftN, rm, rightN) ==
            IF FindNewEventRaises(leftN, st[lm])
            THEN [q |-> q0, err |-> "CollinearityError"]
            ELSE Rightmost(FindNewEvent(q0, leftN, st[lm], p.y, p), rm, rightN)
        Indexed(lm, li, rm, ri) ==
            Leftmost(lm, IF li - 1 >= 1 THEN st[li - 1] ELSE NoSeg,
                     rm, IF ri + 1 <= Len(st) THEN st[ri + 1] ELSE NoSeg)
        Ends(lm, rm) == Indexed(lm, StatusIndex(st, st[lm]), rm, StatusIndex(st, st[rm]))
        Checked(hits) ==
            IF hits = {} THEN [q |-> q0, err |-> "none"]
            ELSE Ends(CHOOSE i \in hits : \A j \in hits : i <= j,
                      CHOOSE i \in hits : \A j \in hits : j <= i)
    IN  IF Len(toCheck) = 0 THEN NoSegments(NeighboursError(st, p))
        ELSE Checked({i \in 1..Len(st) : SegIn(st[i], toCheck)})

\* what one iteration leaves: the queue, the status with its scores, the two maps
EventResult(p, all, rec, added, nt) ==
    [queue |-> nt.q,
     status |-> [i \in 1..Len(added) |-> added[i].seg],
     scores |-> [i \in 1..Len(added) |-> added[i].key],
     inter |-> rec.inter, split |-> rec.split, err |-> nt.err, point |-> p, all |-> all]

\* lines 74-128 and 136-180: record the intersection, then test the new neighbours
EventTests(p, q0, all, toCheck, added, inter, split) ==
    EventResult(p, all, RecordIntersection(inter, split, all, p), added,
                NeighbourTests(q0, [i \in 1..Len(added) |-> added[i].seg], toCheck, p))

\* lines 130-131: status.remove, then status.add below the sweep line
EventStatus(p, q0, all, toCheck, removed, inter, split) ==
    EventTests(p, q0, all, toCheck,
               StatusAdd([i \in 1..Len(removed) |-> removed[i].seg],
                         [i \in 1..Len(removed) |-> removed[i].key], toCheck, p.y, -1),
               inter, split)

\* lines 70-73, 130 and 136: the three unions of the segments at the event
EventUnions(p, q0, upper, lower, contained, st, sc, inter, split, ord) ==
    EventStatus(p, q0, ListsUnion(ListsUnion(upper, lower, ord), contained, ord),
                ListsUnion(upper, contained, ord),
                StatusRemove([i \in 1..Len(st) |-> Scored(st[i], sc[i])],
                             ListsUnion(contained, lower, ord)),
                inter, split)

\* lines 47-68: the event leaves the queue; its segments by the place of p on them
EventAt(event, p, q, st, sc, inter, split, ord) ==
    EventUnions(p, QueueDelete(q, p),
                SelectSeq(event.segments, LAMBDA s : PointEq(OrderByY(s)[1], p)),
                SelectSeq(st, LAMBDA s : Contains(s, p) /\ PointEq(OrderByY(s)[2], p)),
                SelectSeq(st, LAMBDA s : Contains(s, p) /\ ~PointEq(OrderByY(s)[2], p)),
                st, sc, inter, split, ord)

\* the whole body of the while loop for the event on top of the queue
EventStep(q, st, sc, inter, split, ord) ==
    EventAt(QueueMaximum(q), QueueMaximum(q).point, q, st, sc, inter, split, ord)

\* ------------------------------------------------------------------------
\* DCEL records (structs/_overlay.py)
\* ------------------------------------------------------------------------
VNull == <<"v_null", 0>>
ENull == << <<"e_null">>, 0, 0 >>
FNull == -1

\* VertexId(f"{prefix}_v_{n}")
VertexId(prefix, n) == <<prefix, n>>
\* EdgeId.from_vertices keeps only the index of each vertex id
EdgeIdFromVertices(o, d, pfx) == <<pfx, o[2], d[2]>>

Vertex(coords, inc) == [coordinates |-> coords, incident_edges |-> inc]
Edge(origin, twin, face, nxt, prv) ==
    [origin |-> origin, twin |-> twin, incident_face |-> face, next |-> nxt, prev |-> prv]
Face(outer, inner) == [outer_component |-> outer, inner_components |-> inner]

Put(f, k, v) == [x \in (DOMAIN f) \cup {k} |-> IF x = k THEN v ELSE f[x]]
Drop(f, k) == [x \in (DOMAIN f) \ {k} |-> f[x]]

\* faces are f_0, f_1, ...: face f_n is faces[n + 1]; edgeKeys is the key order of
\* the edges dict; err names the exception an operation on the DCEL raised ("" if none)
EmptyDcel(prefix) ==
    [prefix |-> prefix, points |-> <<>>, vertices |-> <<>>, edges |-> <<>>,
     edgeKeys |-> <<>>, faces |-> <<>>, err |-> ""]

Fail(d, e) == [d EXCEPT !.err = e]

\* self.edges[id] = e
PutEdge(d, id, e) ==
    [d EXCEPT !.edges = Put(@, id, e),
              !.edgeKeys = IF id \in DOMAIN d.edges THEN @ ELSE Append(@, id)]

\* Vertex.add_incident_edge
AddIncidentEdge(d, vid, eid) ==
    IF eid \in SeqToSet(d.vertices[vid].incident_edges) THEN d
    ELSE [d EXCEPT !.vertices[vid].incident_edges = Append(@, eid)]

\* a ring of points as the list of (origin, destination) pairs handed to the constructor
Ring(pts) == [i \in 1..Len(pts) |-> <<pts[i], pts[(i % Len(pts)) + 1]>>]

\* "Create vertices"
AddVertex(d, p) ==
    IF p \in DOMAIN d.points THEN d
    ELSE LET vid == VertexId(d.prefix, Cardinality(DOMAIN d.vertices))
         IN  [d EXCEPT !.vertices = Put(@, vid, Vertex(p, <<>>)), !.points = Put(@, p, vid)]

RECURSIVE CreateVertices(_, _)
CreateVertices(d, border) ==
    IF border = <<>> THEN d
    ELSE CreateVertices(AddVertex(AddVertex(d, Head(border)[1]), Head(border)[2]), Tail(border))

\* "Create edges"
CreateEdge(d, o, dst) ==
    LET oid == d.points[o]
        did == d.points[dst]
        eid == EdgeIdFromVertices(oid, did, <<d.prefix>>)
        tid == EdgeIdFromVertices(did, oid, <<d.prefix>>)
        d1 == AddIncidentEdge(PutEdge(d, eid, Edge(oid, tid, FNull, ENull, ENull)), oid, eid)
    IN  IF tid \in DOMAIN d1.edges THEN d1
        ELSE AddIncidentEdge(PutEdge(d1, tid, Edge(did, eid, FNull, ENull, ENull)), did, tid)

RECURSIVE CreateEdges(_, _)
CreateEdges(d, border) ==
    IF border = <<>> THEN d
    ELSE CreateEdges(CreateEdge(d, Head(border)[1], Head(border)[2]), Tail(border))

\* "Connect edges": next/prev of the i-th edge of a border and of its twin
ConnectEdge(d, border, i) ==
    LET n == Len(border)
        start == border[i][1]
        end == border[i][2]
        after == border[(i % n) + 1]
        before == border[((i + n - 2) % n) + 1]
        eid == EdgeIdFromVertices(d.points[start], d.points[end], <<d.prefix>>)
        tid == d.edges[eid].twin
        e1 == [d.edges EXCEPT ![eid].next = EdgeIdFromVertices(d.points[end], d.points[after[2]], <<d.prefix>>),
                              ![eid].prev = EdgeIdFromVertices(d.points[before[1]], d.points[start], <<d.prefix>>)]
        e2 == [e1 EXCEPT ![tid].next = EdgeIdFromVertices(d.points[start], d.points[before[1]], <<d.prefix>>),
                         ![tid].prev = EdgeIdFromVertices(d.points[after[2]], d.points[end], <<d.prefix>>)]
    IN  [d EXCEPT !.edges = e2]

RECURSIVE ConnectEdges(_, _, _)
ConnectEdges(d, border, i) ==
    IF i > Len(border) THEN d ELSE ConnectEdges(ConnectEdge(d, border, i), border, i + 1)

RECURSIVE OverBorders(_, _, _)
\* run one of the three passes above over every polygon of the list
OverBorders(d, polys, pass) ==
    IF polys = <<>> THEN d
    ELSE LET d1 == CASE pass = 1 -> CreateVertices(d, Head(polys))
                     [] pass = 2 -> CreateEdges(d, Head(polys))
                     [] OTHER -> ConnectEdges(d, Head(polys), 1)
         IN  OverBorders(d1, Tail(polys), pass)

\* ------------------------------------------------------------------------
\* Sorting the incident edges of a vertex by angle
\* ------------------------------------------------------------------------
\* the lookups _angle makes for edge e all succeed
AngleDefined(d, e) ==
    /\ e \in DOMAIN d.edges
    /\ d.edges[e].origin \in DOMAIN d.vertices
    /\ d.edges[e].twin \in DOMAIN d.edges
    /\ d.edges[d.edges[e].twin].origin \in DOMAIN d.vertices

\* direction of edge e: (x2 - x1, y2 - y1)
Direction(d, e) ==
    LET a == d.vertices[d.edges[e].origin].coordinates
        b == d.vertices[d.edges[d.edges[e].twin].origin].coordinates
    IN  [dx |-> RSub(b.x, a.x), dy |-> RSub(b.y, a.y)]

\* 0 when atan2 gives an angle in [0, 180), 1 when the angle lands in [180, 360)
HalfTurn(u) == IF RLt(Zero, u.dy) \/ (u.dy = Zero /\ RLe(Zero, u.dx)) THEN 0 ELSE 1

\* _angle(u) < _angle(v)
AngleLt(u, v) ==
    \/ HalfTurn(u) < HalfTurn(v)
    \/ /\ HalfTurn(u) = HalfTurn(v)
       /\ RLt(Zero, RSub(RMul(u.dx, v.dy), RMul(u.dy, v.dx)))

\* sorted(..., reverse=True) is stable: x goes before the first y of smaller angle
InsertByAngle(d, s, x) ==
    LET smaller == {i \in 1..Len(s) : AngleLt(Direction(d, s[i]), Direction(d, x))}
        k == IF smaller = {} THEN Len(s) + 1
             ELSE CHOOSE i \in smaller : \A j \in smaller : i <= j
    IN  SubSeq(s, 1, k - 1) \o <<x>> \o SubSeq(s, k, Len(s))

RECURSIVE SortFrom(_, _, _)
SortFrom(d, items, acc) ==
    IF items = <<>> THEN acc
    ELSE SortFrom(d, Tail(items), InsertByAngle(d, acc, Head(items)))

SortRaises(d, inc) == \E i \in 1..Len(inc) : ~AngleDefined(d, inc[i])
sort_incident_edges(d, inc) == SortFrom(d, inc, <<>>)

\* "Sort incident edges"
SortAllVertices(d) ==
    [d EXCEPT !.vertices =
        [v \in DOMAIN d.vertices |->
            Vertex(d.vertices[v].coordinates, sort_incident_edges(d, d.vertices[v].incident_edges))]]

RECURSIVE LinkAroundPrevIsEdge(_, _, _)
\* faulty variant of LinkAround: e2->prev is set to e1 instead of e1->twin
LinkAroundPrevIsEdge(edges, inc, i) ==
    IF i > Len(inc) THEN edges
    ELSE LET e1 == inc[i]
             e2 == inc[(i % Len(inc)) + 1]
             t == edges[e1].twin
             a == [edges EXCEPT ![t].next = e2]
             b == [a EXCEPT ![e2].prev = e1]
         IN  LinkAroundPrevIsEdge(b, inc, i + 1)

\* e1->twin->next = e2 and e2->prev = e1->twin for consecutive incident edges
RECURSIVE LinkAround(_, _, _)
LinkAround(edges, inc, i) ==
    IF i > Len(inc) THEN edges
    ELSE LET e1 == inc[i]
             e2 == inc[(i % Len(inc)) + 1]
             t == edges[e1].twin
             a == [edges EXCEPT ![t].next = e2]
             b == [a EXCEPT ![e2].prev = t]
         IN  LinkAround(b, inc, i + 1)

RECURSIVE LinkVertices(_, _)
\* vids: the vertex ids in dict order (creation order)
LinkVertices(d, n) ==
    IF n >= Cardinality(DOMAIN d.vertices) THEN d
    ELSE LinkVertices([d EXCEPT !.edges = LinkAround(@, d.vertices[VertexId(d.prefix, n)].incident_edges, 1)],
                      n + 1)

\* ------------------------------------------------------------------------
\* Faces
\* ------------------------------------------------------------------------
RECURSIVE BoundaryFrom(_, _, _, _)
BoundaryFrom(d, start, cur, acc) ==
    IF cur = start THEN acc
    ELSE BoundaryFrom(d, start, d.edges[cur].next, Append(acc, cur))

\* the half-edges met following next from e until e comes back
boundary(d, e) == BoundaryFrom(d, e, d.edges[e].next, <<e>>)

RECURSIVE AreaSum(_, _, _)
AreaSum(d, per, i) ==
    IF i > Len(per) THEN Zero
    ELSE LET o == d.vertices[d.edges[per[i]].origin].coordinates
             t == d.vertices[d.edges[d.edges[per[i]].next].origin].coordinates
         IN  RAdd(RSub(RMul(o.x, t.y), RMul(o.y, t.x)), AreaSum(d, per, i + 1))

\* signed area of the cycle of the face's outer component
face_area(d, face) ==
    RDiv(AreaSum(d, boundary(d, face.outer_component), 1), R(2))

\* the loop body of DoublyConnectedEdgeList.segments: the (origin, destination)
\* pairs along the boundary of a face
FaceSegments(d, per) ==
    [i \in 1..Len(per) |->
        <<d.vertices[d.edges[per[i]].origin].coordinates,
          d.vertices[d.edges[d.edges[per[i]].next].origin].coordinates>>]

RECURSIVE SegmentsFrom(_, _)
\* DoublyConnectedEdgeList.segments: one ring per face that is not external, in
\* the order of the faces
SegmentsFrom(d, i) ==
    IF i > Len(d.faces) THEN <<>>
    ELSE IF d.faces[i].outer_component = ENull THEN SegmentsFrom(d, i + 1)
    ELSE <<FaceSegments(d, boundary(d, d.faces[i].outer_component))>> \o SegmentsFrom(d, i + 1)

dcel_segments(d) == SegmentsFrom(d, 1)

RemoveKey(keys, k) == SelectSeq(keys, LAMBDA x : x # k)

RECURSIVE WalkCycleUnlabelled(_, _, _, _, _)
\* faulty variant of WalkCycle: the edges met are popped but not given the face
WalkCycleUnlabelled(d, keys, start, cur, f) ==
    IF d.err # "" THEN [d |-> d, keys |-> keys]
    ELSE IF cur \notin DOMAIN d.edges THEN [d |-> Fail(d, "KeyError"), keys |-> keys]
    ELSE IF cur = start THEN [d |-> d, keys |-> keys]
    ELSE IF cur \notin SeqToSet(keys) THEN [d |-> Fail(d, "KeyError"), keys |-> keys]
    ELSE WalkCycleUnlabelled(d, RemoveKey(keys, cur), start, d.edges[cur].next, f)

RECURSIVE WalkCycle(_, _, _, _, _)
\* the inner while loop of assign_faces: label the cycle of start with face f and
\* pop every edge met from the copy; keys is what is left of the copy
WalkCycle(d, keys, start, cur, f) ==
    IF d.err # "" THEN [d |-> d, keys |-> keys]
    ELSE IF cur \notin DOMAIN d.edges THEN [d |-> Fail(d, "KeyError"), keys |-> keys]
    ELSE IF cur = start THEN [d |-> d, keys |-> keys]
    ELSE IF cur \notin SeqToSet(keys) THEN [d |-> Fail(d, "KeyError"), keys |-> keys]
    ELSE WalkCycle([d EXCEPT !.edges[cur].incident_face = f], RemoveKey(keys, cur),
                   start, d.edges[cur].next, f)

RECURSIVE PopEdges(_, _, _)
\* the outer while loop: copy is the deep copy taken at the call, popped from the end
PopEdges(d, copy, keys) ==
    IF d.err # "" \/ keys = <<>> THEN d
    ELSE LET k == keys[Len(keys)]
             rest == SubSeq(keys, 1, Len(keys) - 1)
             edge == copy[k]
         IN  IF edge.incident_face # FNull THEN PopEdges(d, copy, rest)
             ELSE LET f == Len(d.faces)
                      d1 == [d EXCEPT !.faces = Append(@, Face(k, <<>>)),
                                      !.edges = Put(@, k, [edge EXCEPT !.incident_face = f])]
                      w == WalkCycle(d1, rest, k, edge.next, f)
                  IN  PopEdges(w.d, copy, w.keys)

RECURSIVE MarkExternal(_, _, _)
\* "Find external face as the one with negative area"
MarkExternal(d, i, found) ==
    IF i > Len(d.faces) THEN (IF found THEN d ELSE Fail(d, "DcelError"))
    ELSE IF RLt(face_area(d, d.faces[i]), Zero)
         THEN MarkExternal([d EXCEPT !.faces[i] = Face(ENull, <<d.faces[i].outer_component>>)],
                           i + 1, TRUE)
         ELSE MarkExternal(d, i + 1, found)

assign_faces(d) ==
    LET d1 == PopEdges(d, d.edges, d.edgeKeys)
    IN  IF d1.err # "" THEN d1 ELSE MarkExternal(d1, 1, FALSE)

\* DoublyConnectedEdgeList(polygons_list, prefix)
build_dcel(polys, prefix) ==
    IF Len(polys) = 0 THEN EmptyDcel(prefix)
    ELSE LET d1 == OverBorders(EmptyDcel(prefix), polys, 1)
             d2 == OverBorders(d1, polys, 2)
             d3 == OverBorders(d2, polys, 3)
             d4 == LinkVertices(SortAllVertices(d3), 0)
         IN  assign_faces(d4)

\* ------------------------------------------------------------------------
\* Overlay (algorithms/_overlay.py)
\* ------------------------------------------------------------------------
NullFaces(edges) == [e \in DOMAIN edges |-> [edges[e] EXCEPT !.incident_face = FNull]]
Union2(f, g) == [x \in (DOMAIN f) \cup (DOMAIN g) |-> IF x \in DOMAIN g THEN g[x] ELSE f[x]]

\* vertices after the loop over s2.points: the two vertices of a shared point both
\* get the concatenation of the two incident lists
MergedVertices(s1, s2) ==
    LET vs == Union2(s1.vertices, s2.vertices)
        shared == (DOMAIN s1.points) \cap (DOMAIN s2.points)
        inc(p) == vs[s1.points[p]].incident_edges \o vs[s2.points[p]].incident_edges
    IN  [v \in DOMAIN vs |->
            IF vs[v].coordinates \in shared /\ v \in {s1.points[vs[v].coordinates], s2.points[vs[v].coordinates]}
            THEN Vertex(vs[v].coordinates, inc(vs[v].coordinates))
            ELSE vs[v]]

\* faulty variant of merge: the test of the two prefixes is left out
MergeUnchecked(s1, s2) ==
    [dcel |-> [prefix |-> "dcel",
               points |-> Union2(s2.points, s1.points),
               vertices |-> MergedVertices(s1, s2),
               edges |-> Union2(NullFaces(s1.edges), NullFaces(s2.edges)),
               edgeKeys |-> s1.edgeKeys \o s2.edgeKeys,
               faces |-> <<>>,
               err |-> ""],
     overlapping_points |->
         [p \in (DOMAIN s1.points) \cap (DOMAIN s2.points) |-> s2.points[p]]]

\* _merge: the merged DCEL and the overlapping points
merge(s1, s2) ==
    IF s1.prefix = s2.prefix
    THEN [dcel |-> Fail(EmptyDcel("dcel"), "DcelError"), overlapping_points |-> <<>>]
    ELSE [dcel |-> [prefix |-> "dcel",
                    points |-> Union2(s2.points, s1.points),
                    vertices |-> MergedVertices(s1, s2),
                    edges |-> Union2(NullFaces(s1.edges), NullFaces(s2.edges)),
                    edgeKeys |-> s1.edgeKeys \o s2.edgeKeys,
                    faces |-> <<>>,
                    err |-> ""],
          overlapping_points |->
              [p \in (DOMAIN s1.points) \cap (DOMAIN s2.points) |-> s2.points[p]]]

\* _merge lines 121-122: the merged dict is a copy that holds the operands' own
\* Vertex objects, but for the two vertices of a shared point, which lines 152-153
\* bind to new Vertex objects with a new list
SharedObjects(s1, s2) ==
    IF s1.prefix = s2.prefix THEN {}
    ELSE LET vs == Union2(s1.vertices, s2.vertices)
             shared == (DOMAIN s1.points) \cap (DOMAIN s2.points)
         IN  {v \in DOMAIN vs :
                  ~(vs[v].coordinates \in shared
                    /\ v \in {s1.points[vs[v].coordinates], s2.points[vs[v].coordinates]})}

\* faulty variant of Rebound: the incident_edges list of the Vertex is changed in
\* place, the dict keeps the object it held
ReboundNone(before, after) == {}

\* the vertices a step of overlay() writes: every write binds the id to a new
\* Vertex with a new incident_edges list in the dict of the overlay DCEL
Rebound(before, after) ==
    {v \in (DOMAIN before.vertices) \cap (DOMAIN after.vertices) :
         after.vertices[v] # before.vertices[v]}

\* the operand s as a caller of overlay() sees it: a Vertex object it shares with
\* the overlay DCEL d has the value that object has in d
Operand(s, d, al) ==
    [s EXCEPT !.vertices = [v \in DOMAIN @ |->
                               IF v \in al /\ v \in DOMAIN d.vertices THEN d.vertices[v] ELSE @[v]]]

\* _get_vertex: "" when it returns, else the exception it raises
GetVertexRaises(d, ov, p, prefix) ==
    IF p \notin DOMAIN d.points THEN "OverlayError"
    ELSE IF d.points[p][1] = prefix THEN ""
    ELSE IF p \in DOMAIN ov THEN "" ELSE "KeyError"

get_vertex(d, ov, p, prefix) ==
    IF d.points[p][1] = prefix THEN d.points[p] ELSE ov[p]

\* the Segment overlay() builds for the half-edge with key k
EdgeSegment(d, ov, k) ==
    LET twin == d.edges[d.edges[k].twin]
        o == d.vertices[d.edges[k].origin].coordinates
        t == d.vertices[twin.origin].coordinates
        ps == OrderByY(Segment(o, t, NoId))
        pfx == IdPrefix(k)
    IN  Segment(ps[1], ps[2],
                EdgeIdFromVertices(get_vertex(d, ov, ps[1], pfx), get_vertex(d, ov, ps[2], pfx), <<pfx>>))

RECURSIVE EdgeSegments(_, _, _, _)
\* segments.add over the edges in dict order: an equal segment already in the set stays
EdgeSegments(d, ov, i, acc) ==
    IF i > Len(d.edgeKeys) THEN acc
    ELSE LET sg == EdgeSegment(d, ov, d.edgeKeys[i])
         IN  EdgeSegments(d, ov, i + 1,
                          IF \E j \in 1..Len(acc) : SameKey(acc[j], sg) THEN acc ELSE Append(acc, sg))

RECURSIVE AddIntersectionVertices(_, _, _, _)
\* "Add new vertices for the intersection points"
AddIntersectionVertices(d, ov, inter, i) ==
    IF i > Len(inter) THEN d
    ELSE LET p == inter[i].point
         IN  IF p \in DOMAIN d.points \/ p \in DOMAIN ov
             THEN AddIntersectionVertices(d, ov, inter, i + 1)
             ELSE LET vid == VertexId(d.prefix, Cardinality(DOMAIN d.vertices))
                  IN  AddIntersectionVertices(
                          [d EXCEPT !.points = Put(@, p, vid),
                                    !.vertices = Put(@, vid, Vertex(p, <<>>))],
                          ov, inter, i + 1)

\* splitted_edges[id].extend([pair]), in dict order
SplitEdgesAppend(se, id, pair) ==
    IF \E i \in 1..Len(se) : se[i].id = id
    THEN LET i == CHOOSE j \in 1..Len(se) : se[j].id = id
         IN  [se EXCEPT ![i].new_edges = Append(@, pair)]
    ELSE Append(se, [id |-> id, new_edges |-> <<pair>>])

RECURSIVE SplitSegment(_, _, _, _, _)
\* the inner loop of _split_segments_into_edges_at_intersections for one segment;
\* here _get_vertex is called with dcel.points in the place of the overlapping points
SplitSegment(d, se, seg, pts, i) ==
    IF d.err # "" \/ i > Len(pts) - 1 THEN [dcel |-> d, splitted_edges |-> se]
    ELSE IF pts[i] \notin DOMAIN d.points \/ pts[i + 1] \notin DOMAIN d.points
    THEN [dcel |-> Fail(d, "OverlayError"), splitted_edges |-> se]
    ELSE LET prefix == IdPrefix(seg.id)
             a == get_vertex(d, d.points, pts[i], prefix)
             b == get_vertex(d, d.points, pts[i + 1], prefix)
             edge_id == EdgeIdFromVertices(a, b, <<d.prefix, prefix>>)
             twin_id == EdgeIdFromVertices(b, a, <<prefix, d.prefix>>)
             d1 == PutEdge(d, edge_id, Edge(a, twin_id, FNull, ENull, ENull))
             d2 == PutEdge(d1, twin_id, Edge(b, edge_id, FNull, ENull, ENull))
         IN  SplitSegment(d2, SplitEdgesAppend(se, seg.id, <<edge_id, twin_id>>), seg, pts, i + 1)

RECURSIVE SplitSegments(_, _, _, _)
SplitSegments(d, se, split, k) ==
    IF d.err # "" \/ k > Len(split) THEN [dcel |-> d, splitted_edges |-> se]
    ELSE IF Len(split[k].pts) <= 2 THEN SplitSegments(d, se, split, k + 1)
    ELSE LET r == SplitSegment(d, se, split[k].seg, split[k].pts, 1)
         IN  SplitSegments(r.dcel, r.splitted_edges, split, k + 1)

split_segments_into_edges_at_intersections(d, split) == SplitSegments(d, <<>>, split, 1)

RECURSIVE RelinkFrom(_, _, _)
\* the loop of _update_intersection_incident_edges: edge and cw_prev are both read
\* before either is written
RelinkFrom(d, sorted, i) ==
    IF d.err # "" \/ i > Len(sorted) THEN d
    ELSE LET n == Len(sorted)
             eid == sorted[i]
             pid == sorted[((i + n - 2) % n) + 1]
         IN  IF eid \notin DOMAIN d.edges \/ pid \notin DOMAIN d.edges THEN Fail(d, "KeyError")
             ELSE IF d.edges[pid].twin \notin DOMAIN d.edges THEN Fail(d, "KeyError")
             ELSE LET cwid == d.edges[pid].twin
                      edge == d.edges[eid]
                      cw == d.edges[cwid]
                      a == Put(d.edges, eid, [edge EXCEPT !.prev = cwid])
                      b == Put(a, cwid, [cw EXCEPT !.next = eid])
                  IN  RelinkFrom([d EXCEPT !.edges = b], sorted, i + 1)

\* _update_intersection_incident_edges(dcel, dcel.vertices[vid])
update_intersection_incident_edges(d, vid) ==
    LET Relinked(sorted, d1) ==
            IF d1.err # "" THEN d1
            ELSE [d1 EXCEPT !.vertices[vid].incident_edges = sorted]
        Sorted(sorted) == Relinked(sorted, RelinkFrom(d, sorted, 1))
        Around(inc) ==
            IF SortRaises(d, inc) THEN Fail(d, "KeyError")
            ELSE Sorted(sort_incident_edges(d, inc))
    IN  IF d.err # "" THEN d
        ELSE IF vid \notin DOMAIN d.vertices THEN Fail(d, "KeyError")
        ELSE Around(d.vertices[vid].incident_edges)

\* drop edge eid from the incident edges of its origin and relink around that vertex
RemoveFromOrigin(d, eid) ==
    IF d.err # "" THEN d
    ELSE IF eid \notin DOMAIN d.edges THEN Fail(d, "KeyError")
    ELSE LET v == d.edges[eid].origin
         IN  IF v \notin DOMAIN d.vertices THEN Fail(d, "KeyError")
             ELSE update_intersection_incident_edges(
                      [d EXCEPT !.vertices[v].incident_edges = SelectSeq(@, LAMBDA x : x # eid)], v)

\* "Update predecessor of the original edge"
UpdatePredecessor(d, orig, new_edges) ==
    IF d.err # "" THEN d
    ELSE IF orig.prev \notin DOMAIN d.edges THEN Fail(d, "KeyError")
    ELSE IF d.edges[orig.prev].twin \notin DOMAIN d.edges THEN Fail(d, "KeyError")
    ELSE LET pe == d.edges[orig.prev]
             pt == d.edges[pe.twin]
             a == Put(d.edges, orig.prev, [pe EXCEPT !.next = new_edges[1][1]])
             b == Put(a, pe.twin, [pt EXCEPT !.prev = new_edges[1][2]])
         IN  [d EXCEPT !.edges = b]

\* "Update successor of the original edge"
UpdateSuccessor(d, orig, new_edges) ==
    IF d.err # "" THEN d
    ELSE IF orig.next \notin DOMAIN d.edges THEN Fail(d, "KeyError")
    ELSE IF d.edges[orig.next].twin \notin DOMAIN d.edges THEN Fail(d, "KeyError")
    ELSE LET ne == d.edges[orig.next]
             nt == d.edges[ne.twin]
             last == new_edges[Len(new_edges)]
             a == Put(d.edges, orig.next, [ne EXCEPT !.prev = last[1]])
             b == Put(a, ne.twin, [nt EXCEPT !.next = last[2]])
         IN  [d EXCEPT !.edges = b]

RECURSIVE LinkNew(_, _, _, _, _)
\* "Link the new edges"
LinkNew(d, orig, otwin, new_edges, i) ==
    IF d.err # "" \/ i > Len(new_edges) THEN d
    ELSE LET n == Len(new_edges)
             eid == new_edges[i][1]
             tid == new_edges[i][2]
         IN  IF eid \notin DOMAIN d.edges \/ tid \notin DOMAIN d.edges THEN Fail(d, "KeyError")
             ELSE LET ne == d.edges[eid]
                      nt == d.edges[tid]
                  IN  IF ne.origin \notin DOMAIN d.vertices \/ nt.origin \notin DOMAIN d.vertices
                      THEN Fail(d, "KeyError")
                      ELSE IF n = 1 THEN Fail(d, "IndexError")
                      ELSE LET v1 == [d.vertices EXCEPT ![ne.origin].incident_edges = Append(@, eid)]
                               v2 == [v1 EXCEPT ![nt.origin].incident_edges = Append(@, tid)]
                               e1 == IF i = 1 THEN [ne EXCEPT !.next = new_edges[2][1], !.prev = orig.prev]
                                     ELSE IF i = n THEN [ne EXCEPT !.next = orig.next, !.prev = new_edges[i - 1][1]]
                                     ELSE [ne EXCEPT !.next = new_edges[i + 1][1], !.prev = new_edges[i - 1][1]]
                               t1 == IF i = 1 THEN [nt EXCEPT !.next = otwin.next, !.prev = new_edges[2][2]]
                                     ELSE IF i = n THEN [nt EXCEPT !.next = new_edges[i - 1][2], !.prev = otwin.prev]
                                     ELSE [nt EXCEPT !.next = new_edges[i - 1][2], !.prev = new_edges[i + 1][2]]
                               d1 == [d EXCEPT !.vertices = v2,
                                               !.edges = Put(Put(@, eid, e1), tid, t1)]
                           IN  LinkNew(d1, orig, otwin, new_edges, i + 1)

\* the vertex overlapping vid gets a copy of vid's incident edges
CopyToOverlapping(d, ov, vid) ==
    IF d.err # "" THEN d
    ELSE IF vid \notin DOMAIN d.vertices THEN Fail(d, "KeyError")
    ELSE LET v == d.vertices[vid]
         IN  IF v.coordinates \in DOMAIN ov
             THEN [d EXCEPT !.vertices = Put(@, ov[v.coordinates], Vertex(v.coordinates, v.incident_edges))]
             ELSE d

\* del dcel.edges[id]
DeleteEdge(d, id) ==
    IF d.err # "" THEN d
    ELSE IF id \notin DOMAIN d.edges THEN Fail(d, "KeyError")
    ELSE [d EXCEPT !.edges = Drop(@, id), !.edgeKeys = RemoveKey(@, id)]

update_original_edge(d, ov, oid, new_edges) ==
    LET \* lines 374-394
        Replaced(orig, otwin, d5) ==
            DeleteEdge(DeleteEdge(CopyToOverlapping(CopyToOverlapping(d5, ov, orig.origin),
                                                    ov, otwin.origin), oid), orig.twin)
        \* lines 258-372
        Detached(orig, otwin, d2) ==
            Replaced(orig, otwin,
                     LinkNew(UpdateSuccessor(UpdatePredecessor(d2, orig, new_edges),
                                             orig, new_edges),
                             orig, otwin, new_edges, 1))
        \* lines 244-256
        FromTwin(orig, d1) ==
            IF d1.err # "" THEN d1
            ELSE IF orig.twin \notin DOMAIN d1.edges THEN Fail(d1, "KeyError")
            ELSE Detached(orig, d1.edges[orig.twin], RemoveFromOrigin(d1, orig.twin))
        \* lines 230-242
        FromOrigin(orig) == FromTwin(orig, RemoveFromOrigin(d, oid))
    IN  IF oid \notin DOMAIN d.edges THEN Fail(d, "KeyError")
        ELSE FromOrigin(d.edges[oid])

\* faulty variant of UpdateIntersection: only intersections at endpoints are relinked
UpdateIntersectionAtEndpointsOnly(d, ov, p, segs) ==
    LET Overlapping(d1) ==
            IF p \in DOMAIN ov THEN update_intersection_incident_edges(d1, ov[p]) ELSE d1
        AtVertex(prefix, raises) ==
            IF raises # "" THEN Fail(d, raises)
            ELSE Overlapping(update_intersection_incident_edges(d, get_vertex(d, ov, p, prefix)))
        AtEndpoint(prefix) == AtVertex(prefix, GetVertexRaises(d, ov, p, prefix))
    IN  IF \A i \in 1..Len(segs) : PointEq(segs[i].p1, p) \/ PointEq(segs[i].p2, p)
        THEN AtEndpoint(IdPrefix(segs[1].id))
        ELSE d

\* one iteration of the closing loop of overlay() over intersections.items()
UpdateIntersection(d, ov, p, segs) ==
    LET Overlapping(d1) ==
            IF p \in DOMAIN ov THEN update_intersection_incident_edges(d1, ov[p]) ELSE d1
        AtVertex(prefix, raises) ==
            IF raises # "" THEN Fail(d, raises)
            ELSE Overlapping(update_intersection_incident_edges(d, get_vertex(d, ov, p, prefix)))
        AtEndpoint(prefix) == AtVertex(prefix, GetVertexRaises(d, ov, p, prefix))
    IN  IF \A i \in 1..Len(segs) : PointEq(segs[i].p1, p) \/ PointEq(segs[i].p2, p)
        THEN AtEndpoint(IdPrefix(segs[1].id))
        ELSE IF Cardinality({IdPrefix(segs[i].id) : i \in 1..Len(segs)}) > 1
             THEN IF p \notin DOMAIN d.points THEN Fail(d, "KeyError")
                  ELSE update_intersection_incident_edges(d, d.points[p])
             ELSE d

\* ------------------------------------------------------------------------
\* The two algorithms as functions of their arguments
\* ------------------------------------------------------------------------
RECURSIVE SweepLoop(_, _, _, _, _, _)
\* the while loop of sweep_line_intersection, run until the queue is empty or an
\* exception leaves it
SweepLoop(q, st, sc, inter, split, ord) ==
    IF q = {} THEN [err |-> "none", inter |-> inter, split |-> split]
    ELSE LET r == EventStep(q, st, sc, inter, split, ord)
         IN  IF r.err # "none" THEN [err |-> r.err, inter |-> inter, split |-> split]
             ELSE SweepLoop(r.queue, r.status, r.scores, r.inter, r.split, ord)

sweep_line_intersection(segs, ord) ==
    IF QueueMaximumRaises(InitializeEventQueue(segs, {})) THEN [err |-> "AttributeError", inter |-> <<>>, split |-> <<>>]
    ELSE SweepLoop(InitializeEventQueue(segs, {}), <<>>, <<>>, <<>>, <<>>, ord)

RECURSIVE UpdateOriginalEdges(_, _, _, _)
\* overlay() lines 59-60: the loop over splitted_edges
UpdateOriginalEdges(d, ov, se, i) ==
    IF d.err # "" \/ i > Len(se) THEN d
    ELSE UpdateOriginalEdges(update_original_edge(d, ov, se[i].id, se[i].new_edges), ov, se, i + 1)

RECURSIVE UpdateIntersections(_, _, _, _)
\* overlay() lines 62-96: the loop over intersections
UpdateIntersections(d, ov, inter, i) ==
    IF d.err # "" \/ i > Len(inter) THEN d
    ELSE UpdateIntersections(UpdateIntersection(d, ov, inter[i].point, inter[i].segs), ov, inter, i + 1)

\* overlay(s1, s2): the DCEL returned, or the merged DCEL with err set to the
\* exception raised
overlay(s1, s2, ord) ==
    LET m == merge(s1, s2)
        ov == m.overlapping_points
    IN  IF m.dcel.err # "" THEN m.dcel
        ELSE LET sw == sweep_line_intersection(
                           ListOf(SeqToSet(EdgeSegments(m.dcel, ov, 1, <<>>)), ord), ord)
             IN  IF sw.err # "none" THEN Fail(m.dcel, sw.err)
                 ELSE LET r == split_segments_into_edges_at_intersections(
                                   AddIntersectionVertices(m.dcel, ov, sw.inter, 1), sw.split)
                          d1 == UpdateOriginalEdges(r.dcel, ov, r.splitted_edges, 1)
                          d2 == UpdateIntersections(d1, ov, sw.inter, 1)
                      IN  IF d2.err # "" THEN d2 ELSE assign_faces(d2)

\* ------------------------------------------------------------------------
\* Inputs
\* ------------------------------------------------------------------------
\* largest number of catalogue segments in one input list
MaxSegs == 4

\* segments on the grid 0..5 x 0..3: crossings, touching endpoints, a point common
\* to four segments, and three collinear overlapping pairs
Catalogue ==
    << Seg(0, 1, 4, 1), Seg(1, 0, 1, 2), Seg(2, 1, 2, 2), Seg(3, 0, 3, 2),
       Seg(0, 0, 2, 2), Seg(0, 2, 2, 0), Seg(2, 0, 4, 2), Seg(0, 1, 3, 0),
       Seg(1, 1, 3, 3), Seg(2, 1, 5, 1), Seg(1, 1, 1, 3) >>

RECURSIVE Pick(_, _)
\* the catalogue segments with index in S, in catalogue order
Pick(S, i) ==
    IF i > Len(Catalogue) THEN <<>>
    ELSE (IF i \in S THEN <<Catalogue[i]>> ELSE <<>>) \o Pick(S, i + 1)

\* end-to-end scenarios 2 and 3 of the specification
StarInput == << Seg(0, 0, 1, 1), Seg(0, 0, 1, -1), Seg(0, 0, -1, 0) >>
GridInput == << Seg(0, 0, 10, 0), Seg(0, 5, 10, 5), Seg(3, -1, 3, 6), Seg(7, -1, 7, 6) >>
\* end-to-end scenario 4: two horizontal segments overlapping on (5,0)-(10,0)
OverlapInput == << Seg(0, 0, 10, 0), Seg(5, 0, 15, 0) >>
\* a horizontal segment holding another one
NestedInput == << Seg(0, 0, 10, 0), Seg(2, 0, 5, 0) >>
\* the overlapping pair with the first segment given from right to left
ReversedInput == << Seg(10, 0, 0, 0), Seg(5, 0, 15, 0) >>

SegmentInputs ==
    {Pick(S, 1) : S \in {T \in SUBSET (1..Len(Catalogue)) : Cardinality(T) <= MaxSegs}}
        \cup {StarInput, GridInput, OverlapInput, NestedInput, ReversedInput}

\* number of catalogue shapes the two subdivisions are drawn from
MaxShapes == 10

\* a polygon from the integer corners of its ring
Poly(c) == Ring([i \in 1..Len(c) |-> Pt(c[i][1], c[i][2])])
Square(x, y, w) == Poly(<< <<x, y>>, <<x + w, y>>, <<x + w, y + w>>, <<x, y + w>> >>)

\* polygon lists: the two squares of end-to-end scenario 6, two disjoint squares,
\* two squares sharing a side, a rectangle and a notched pentagon crossing it,
\* two triangles sharing a vertex, a far square, a clockwise triangle, a square
\* beside the first ones
Shapes ==
    << <<Square(0, 0, 2)>>,
       <<Square(1, 1, 2)>>,
       <<Square(0, 0, 1), Square(3, 3, 1)>>,
       <<Square(0, 0, 1), Square(1, 0, 1)>>,
       <<Poly(<< <<0, 1>>, <<6, 1>>, <<6, 3>>, <<0, 3>> >>)>>,
       <<Poly(<< <<1, 0>>, <<5, 0>>, <<5, 2>>, <<3, 1>>, <<1, 2>> >>)>>,
       <<Poly(<< <<0, 0>>, <<1, 2>>, <<0, 1>> >>)>>,
       <<Poly(<< <<0, 1>>, <<1, 0>>, <<1, 1>> >>)>>,
       <<Square(4, 4, 1)>>,
       <<Poly(<< <<0, 0>>, <<2, 3>>, <<4, 0>> >>)>>,
       <<Square(2, 0, 1)>> >>

ShapeInputs == {Shapes[i] : i \in 1..MaxShapes}

\* largest coordinate of the endpoints of the two segments handed to
\* Segment.intersection
MaxCoord == 3

GridPoints == {Pt(x, y) : x \in 0..MaxCoord, y \in 0..MaxCoord}

\* every segment between two distinct grid points, in both orders of its endpoints
PairSegments == {Segment(p, q, NoId) : p \in GridPoints, q \in GridPoints} \ {Segment(p, p, NoId) : p \in GridPoints}

\* ------------------------------------------------------------------------
\* RedBlackTree (structs/_tree.py)
\*
\* A tree is [root, size, nodes]; nodes maps each Node to its fields.  A Node is
\* named by the value it holds: Node objects are made by _insert only, after
\* search has found no node with that value, and no method copies a value from
\* one node to another.  Every NullNode is Nil: two NullNodes compare equal
\* (NullNode.__eq__) and a NullNode is black.  The only attribute a NullNode is
\* given is the parent that delete sets on x before _delete_fixup reads it;
\* that parent is passed along with x as xp.
\* ------------------------------------------------------------------------
Nil == 0

Node(value, parent) ==
    [value |-> value, color |-> "red", left |-> Nil, right |-> Nil, parent |-> parent]

EmptyTree == [root |-> Nil, size |-> 0, nodes |-> <<>>]

IsRed(t, x) == x # Nil /\ t.nodes[x].color = "red"
IsBlack(t, x) == x = Nil \/ t.nodes[x].color = "black"

\* assignments to the attributes of a node; a NullNode keeps none of them
SetColor(t, x, c) == IF x = Nil THEN t ELSE [t EXCEPT !.nodes[x].color = c]
SetLeft(t, x, y) == IF x = Nil THEN t ELSE [t EXCEPT !.nodes[x].left = y]
SetRight(t, x, y) == IF x = Nil THEN t ELSE [t EXCEPT !.nodes[x].right = y]
SetParent(t, x, y) == IF x = Nil THEN t ELSE [t EXCEPT !.nodes[x].parent = y]

\* node.parent, for the node x whose parent is xp when x is a NullNode
ParentOf(t, x, xp) == IF x = Nil THEN xp ELSE t.nodes[x].parent

RECURSIVE TreeSearch(_, _, _)
\* _search: the node holding value, or Nil for None
TreeSearch(t, x, value) ==
    IF x = Nil THEN Nil
    ELSE IF t.nodes[x].value = value THEN x
    ELSE IF t.nodes[x].value < value THEN TreeSearch(t, t.nodes[x].right, value)
    ELSE TreeSearch(t, t.nodes[x].left, value)

RECURSIVE TreeMinimum(_, _)
\* minimum(node)
TreeMinimum(t, x) == IF t.nodes[x].left = Nil THEN x ELSE TreeMinimum(t, t.nodes[x].left)

\* faulty variant of maximum: the node it is given
MaximumStaysPut(t, x) == x

RECURSIVE TreeMaximum(_, _)
\* maximum(node)
TreeMaximum(t, x) == IF t.nodes[x].right = Nil THEN x ELSE TreeMaximum(t, t.nodes[x].right)

RECURSIVE Inorder(_, _)
\* _inorder(node): the values of the nodes it yields
Inorder(t, x) ==
    IF x = Nil THEN <<>>
    ELSE Inorder(t, t.nodes[x].left) \o <<t.nodes[x].value>> \o Inorder(t, t.nodes[x].right)

\* the child slot of node's parent, or the root, is made to hold y
ReplaceChild(t, x, y) ==
    IF t.nodes[x].parent = Nil THEN [t EXCEPT !.root = y]
    ELSE IF x = t.nodes[t.nodes[x].parent].left THEN SetLeft(t, t.nodes[x].parent, y)
    ELSE SetRight(t, t.nodes[x].parent, y)

\* _left_rotate(node) with right_node = y
LeftRotateWith(t, x, y) ==
    SetParent(
        SetLeft(
            ReplaceChild(
                SetParent(SetParent(SetRight(t, x, t.nodes[y].left), t.nodes[y].left, x),
                          y, t.nodes[x].parent),
                x, y),
            y, x),
        x, y)

_left_rotate(t, x) == LeftRotateWith(t, x, t.nodes[x].right)

\* _right_rotate(node) with left_node = y; the test of the parent's slot is on
\* node == node.parent.right
RightRotateWith(t, x, y) ==
    LET t1 == SetParent(SetParent(SetLeft(t, x, t.nodes[y].right), t.nodes[y].right, x),
                        y, t.nodes[x].parent)
        t2 == IF t.nodes[x].parent = Nil THEN [t1 EXCEPT !.root = y]
              ELSE IF x = t.nodes[t.nodes[x].parent].right THEN SetRight(t1, t.nodes[x].parent, y)
              ELSE SetLeft(t1, t.nodes[x].parent, y)
    IN  SetParent(SetRight(t2, y, x), x, y)

_right_rotate(t, x) == RightRotateWith(t, x, t.nodes[x].left)

RECURSIVE FindLeaf(_, _, _, _)
\* the while loop of _insert: the node under which the new node is hung
FindLeaf(t, current, parent, value) ==
    IF current = Nil THEN parent
    ELSE IF value < t.nodes[current].value THEN FindLeaf(t, t.nodes[current].left, current, value)
    ELSE FindLeaf(t, t.nodes[current].right, current, value)

\* _insert up to the call of _insert_fixup
Hang(t, value, parent) ==
    LET t1 == [t EXCEPT !.nodes = Put(@, value, Node(value, parent))]
    IN  IF parent = Nil THEN [t1 EXCEPT !.root = value]
        ELSE IF value < t.nodes[parent].value THEN SetLeft(t1, parent, value)
        ELSE SetRight(t1, parent, value)

\* the recolouring of _insert_fixup when the uncle is red
Recolour(t, p, uncle, g) == SetColor(SetColor(SetColor(t, p, "black"), uncle, "black"), g, "red")

\* the end of the black-uncle branch: z's parent black, grandparent red, then
\* the rotation of the grandparent
Straighten(t, z, toRight) ==
    LET p == t.nodes[z].parent
        g == t.nodes[p].parent
        t1 == SetColor(SetColor(t, p, "black"), g, "red")
    IN  IF toRight THEN _right_rotate(t1, g) ELSE _left_rotate(t1, g)

RECURSIVE InsertFixupFrom(_, _)
\* the while loop of _insert_fixup
InsertFixupFrom(t, z) ==
    IF ~IsRed(t, t.nodes[z].parent) THEN t
    ELSE LET p == t.nodes[z].parent
             g == t.nodes[p].parent
         IN  IF p = t.nodes[g].left
             THEN IF IsRed(t, t.nodes[g].right)
                  THEN InsertFixupFrom(Recolour(t, p, t.nodes[g].right, g), g)
                  ELSE IF z = t.nodes[p].right
                       THEN InsertFixupFrom(Straighten(_left_rotate(t, p), p, TRUE), p)
                       ELSE InsertFixupFrom(Straighten(t, z, TRUE), z)
             ELSE IF IsRed(t, t.nodes[g].left)
                  THEN InsertFixupFrom(Recolour(t, p, t.nodes[g].left, g), g)
                  ELSE IF z = t.nodes[p].left
                       THEN InsertFixupFrom(Straighten(_right_rotate(t, p), p, FALSE), p)
                       ELSE InsertFixupFrom(Straighten(t, z, FALSE), z)

_insert_fixup(t, z) == SetColor(InsertFixupFrom(t, z), InsertFixupFrom(t, z).root, "black")

_insert(t, value) == _insert_fixup(Hang(t, value, FindLeaf(t, t.root, Nil, value)), value)

\* faulty variant of insert: the size grows also when the value is found
InsertCountsAgain(t, value) ==
    IF TreeSearch(t, t.root, value) # Nil THEN [t EXCEPT !.size = @ + 1]
    ELSE [_insert(t, value) EXCEPT !.size = @ + 1]

\* insert: the tree after the call (the node returned holds value in both cases)
insert(t, value) ==
    IF TreeSearch(t, t.root, value) # Nil THEN t
    ELSE [_insert(t, value) EXCEPT !.size = @ + 1]

\* _transplant(node1, node2); the parent given to a NullNode node2 is kept by
\* the caller
_transplant(t, u, w) == SetParent(ReplaceChild(t, u, w), w, t.nodes[u].parent)

\* the branches of the while loop of _delete_fixup once the sibling s is black;
\* left tells that node is taken for the left child of p
SiblingBlack(t, p, s, left) ==
    IF IsBlack(t, t.nodes[s].left) /\ IsBlack(t, t.nodes[s].right)
    THEN [t |-> SetColor(t, s, "red"), x |-> p]
    ELSE LET far == IF left THEN t.nodes[s].right ELSE t.nodes[s].left
             near == IF left THEN t.nodes[s].left ELSE t.nodes[s].right
             t1 == IF IsBlack(t, far)
                   THEN (IF left THEN _right_rotate(SetColor(SetColor(t, near, "black"), s, "red"), s)
                         ELSE _left_rotate(SetColor(SetColor(t, near, "black"), s, "red"), s))
                   ELSE t
             s1 == IF left THEN t1.nodes[p].right ELSE t1.nodes[p].left
             far1 == IF left THEN t1.nodes[s1].right ELSE t1.nodes[s1].left
             t2 == SetColor(SetColor(SetColor(t1, s1, t1.nodes[p].color), p, "black"), far1, "black")
             t3 == IF left THEN _left_rotate(t2, p) ELSE _right_rotate(t2, p)
         IN  [t |-> t3, x |-> t3.root]

\* one pass of the while loop of _delete_fixup for node x with parent p
FixupPass(t, x, p) ==
    IF x = t.nodes[p].left
    THEN IF IsRed(t, t.nodes[p].right)
         THEN LET t1 == _left_rotate(SetColor(SetColor(t, t.nodes[p].right, "black"), p, "red"), p)
              IN  SiblingBlack(t1, p, t1.nodes[p].right, TRUE)
         ELSE SiblingBlack(t, p, t.nodes[p].right, TRUE)
    ELSE IF IsRed(t, t.nodes[p].left)
         THEN LET t1 == _right_rotate(SetColor(SetColor(t, t.nodes[p].left, "black"), p, "red"), p)
              IN  SiblingBlack(t1, p, t1.nodes[p].left, FALSE)
         ELSE SiblingBlack(t, p, t.nodes[p].left, FALSE)

\* faulty variant of _delete_fixup: nothing is repaired
DeleteFixupSkipped(t, x, xp) == t

RECURSIVE _delete_fixup(_, _, _)
_delete_fixup(t, x, xp) ==
    IF x # t.root /\ IsBlack(t, x)
    THEN LET r == FixupPass(t, x, ParentOf(t, x, xp))
         IN  _delete_fixup(r.t, r.x, Nil)
    ELSE SetColor(t, x, "black")

\* delete of a node with two children; y is the minimum of its right subtree
DeleteInner(t, node, y) ==
    LET x == t.nodes[y].right
        xp == IF t.nodes[y].parent = node THEN y ELSE t.nodes[y].parent
        t1 == IF t.nodes[y].parent = node THEN SetParent(t, x, y)
              ELSE SetParent(SetRight(_transplant(t, y, x), y, t.nodes[node].right),
                             t.nodes[node].right, y)
        t2 == SetColor(SetParent(SetLeft(_transplant(t1, node, y), y, t.nodes[node].left),
                                 t.nodes[node].left, y),
                       y, t.nodes[node].color)
    IN  IF t.nodes[y].color = "black" THEN _delete_fixup(t2, x, xp) ELSE t2

\* delete of a node with at most one child x
DeleteOuter(t, node, x) ==
    IF t.nodes[node].color = "black"
    THEN _delete_fixup(_transplant(t, node, x), x, t.nodes[node].parent)
    ELSE _transplant(t, node, x)

\* the tree without the Node object that is no longer reachable
Forget(t, node) == [t EXCEPT !.nodes = Drop(@, node), !.size = @ - 1]

delete(t, value) ==
    LET node == TreeSearch(t, t.root, value)
    IN  IF node = Nil THEN t
        ELSE IF t.nodes[node].left = Nil THEN Forget(DeleteOuter(t, node, t.nodes[node].right), node)
        ELSE IF t.nodes[node].right = Nil THEN Forget(DeleteOuter(t, node, t.nodes[node].left), node)
        ELSE Forget(DeleteInner(t, node, TreeMinimum(t, t.nodes[node].right)), node)

\* largest value handed to insert and delete
MaxValue == 5

Values == 1..MaxValue

\* the node insert returns: the one search found, else the one _insert made
InsertReturn(t, value) ==
    IF TreeSearch(t, t.root, value) # Nil THEN TreeSearch(t, t.root, value) ELSE value

NoCall == [name |-> "none", value |-> 0, known |-> FALSE, returned |-> Nil]

\* ------------------------------------------------------------------------
\* Point.__eq__ and Point.__hash__ (structs/_geometry.py), trunc_float
\* (utils/_misc.py)
\*
\* A coordinate is a whole number of units of 10^-(SIGNIFICANT_DIGITS + 2):
\* with SIGNIFICANT_DIGITS = 7 the coordinate 1.0 is 10^9 units and EPS = 1e-8
\* is 10 units.
\* ------------------------------------------------------------------------
SIGNIFICANT_DIGITS == 7

EPS == 10

RECURSIVE Pow10(_)
Pow10(k) == IF k = 0 THEN 1 ELSE 10 * Pow10(k - 1)

\* the coordinate 1.0
One == Pow10(SIGNIFICANT_DIGITS + 2)

\* round(number, digits) for a number of units that is not halfway between two
\* multiples of step = 10^-digits
Round(number, step) ==
    IF 2 * (number % step) < step THEN number - (number % step)
    ELSE number - (number % step) + step

\* int(x * 10**decimals) / 10**decimals for x >= 0
IntPart(x, step) == x - (x % step)

trunc_float(number, decimals) ==
    IntPart(Round(number, Pow10(SIGNIFICANT_DIGITS + 2 - (decimals + 1))),
            Pow10(SIGNIFICANT_DIGITS + 2 - decimals))

\* Point.__hash__: the hash of a tuple of two floats is that of an equal tuple only
PointHash(p) == <<trunc_float(p.x, SIGNIFICANT_DIGITS), trunc_float(p.y, SIGNIFICANT_DIGITS)>>

\* abs(a - b) < EPS: the values the comparison can have.  For two coordinates
\* exactly EPS apart the float difference falls on either side of EPS.
Within(a, b) == IF Abs(a - b) = EPS THEN {TRUE, FALSE} ELSE {Abs(a - b) < EPS}

\* Point.__eq__
PointDunderEq(p, q) == {ex /\ ey : ex \in Within(p.x, q.x), ey \in Within(p.y, q.y)}

\* coordinates within MaxDelta units of 1.0, those left out that round() sees
\* halfway between two multiples of 10 units
MaxDelta == 6

HashCoords == {One + d : d \in (0 - MaxDelta)..MaxDelta} \ {c \in (One - MaxDelta)..(One + MaxDelta) : c % 10 = 5}

HashPoints == {[x |-> x, y |-> y] : x \in HashCoords, y \in HashCoords}

\* the two neighbours handed to _find_new_event, None included, and the event
\* point of the call: an endpoint or a crossing of catalogue segments
FindSegments == SeqToSet(Catalogue) \cup {NoSeg}
FindPoints ==
    {OrderByY(s)[1] : s \in SeqToSet(Catalogue)} \cup {OrderByY(s)[2] : s \in SeqToSet(Catalogue)}
        \cup {Pt(1, 1), Pt(2, 1), Pt(3, 1)}

\* ------------------------------------------------------------------------
\* The two modes of __main__.py: run_intersection (with the reference run) and
\* run_overlay; and a call of Segment.intersection on two segments
\* ------------------------------------------------------------------------
vars == <<mode, pc, err, setOrder, segments, naiveRes, queue, status, scores,
          intersections, splitted, segments1, segments2, dcel1, dcel2, overlay_dcel, aliased,
          overlapping_points, splitted_edges, pos, tree, held, lastOp, points, hashes, call>>

overlayVars == <<segments1, segments2, dcel1, dcel2, overlay_dcel, aliased, overlapping_points,
                 splitted_edges, pos>>

unitVars == <<tree, held, lastOp, points, hashes, call>>

InitSweep ==
    /\ err = "none"
    /\ setOrder \in {"asc", "desc"}
    /\ naiveRes = <<>>
    /\ queue = {}
    /\ status = <<>>
    /\ scores = <<>>
    /\ intersections = <<>>
    /\ splitted = <<>>

InitDcels ==
    /\ dcel1 = EmptyDcel("s1")
    /\ dcel2 = EmptyDcel("s2")
    /\ overlay_dcel = EmptyDcel("dcel")
    /\ aliased = {}
    /\ overlapping_points = <<>>
    /\ splitted_edges = <<>>
    /\ pos = 0

\* no call of _find_new_event on its own
NoFind == [left |-> NoSeg, right |-> NoSeg, event_point |-> NoPoint]

InitUnits ==
    /\ tree = EmptyTree
    /\ held = {}
    /\ lastOp = NoCall
    /\ points = <<>>
    /\ hashes = <<>>
    /\ call = NoFind

\* the variables of the sweep and of overlay() where neither runs
InitIdle ==
    /\ segments = <<>>
    /\ segments1 = <<>>
    /\ segments2 = <<>>
    /\ err = "none"
    /\ setOrder = "asc"
    /\ naiveRes = <<>>
    /\ queue = {}
    /\ status = <<>>
    /\ scores = <<>>
    /\ intersections = <<>>
    /\ splitted = <<>>
    /\ InitDcels

InitIntersection ==
    /\ mode = "intersection"
    /\ pc = "naive"
    /\ segments \in SegmentInputs
    /\ segments1 = <<>>
    /\ segments2 = <<>>
    /\ InitSweep
    /\ InitDcels
    /\ InitUnits

\* the prefix of the second subdivision is the argument of its constructor:
\* run_overlay passes "s2"; overlay() itself accepts any two DCELs
InitOverlay ==
    /\ mode = "overlay"
    /\ pc = "build"
    /\ segments = <<>>
    /\ segments1 \in ShapeInputs
    /\ segments2 \in ShapeInputs \ {segments1}
    /\ InitSweep
    /\ dcel1 = EmptyDcel("s1")
    /\ dcel2 \in {EmptyDcel("s1"), EmptyDcel("s2")}
    /\ overlay_dcel = EmptyDcel("dcel")
    /\ aliased = {}
    /\ overlapping_points = <<>>
    /\ splitted_edges = <<>>
    /\ pos = 0
    /\ InitUnits

\* a.intersection(b) for segments = <<a, b>>; naiveRes holds the point returned
InitPair ==
    /\ mode = "pair"
    /\ pc = "intersect"
    /\ segments \in {<<a, b>> : a \in PairSegments, b \in PairSegments}
    /\ segments1 = <<>>
    /\ segments2 = <<>>
    /\ err = "none"
    /\ setOrder = "asc"
    /\ naiveRes = <<>>
    /\ queue = {}
    /\ status = <<>>
    /\ scores = <<>>
    /\ intersections = <<>>
    /\ splitted = <<>>
    /\ InitDcels
    /\ InitUnits

Intersect ==
    /\ pc = "intersect"
    /\ IF IntersectionRaises(segments[1], segments[2])
       THEN /\ pc' = "raised"
            /\ err' = "CollinearityError"
            /\ UNCHANGED naiveRes
       ELSE /\ pc' = "returned"
            /\ naiveRes' = IF SegIntersection(segments[1], segments[2]) = NoPoint THEN <<>>
                           ELSE <<SegIntersection(segments[1], segments[2])>>
            /\ UNCHANGED err
    /\ UNCHANGED <<mode, setOrder, segments, queue, status, scores, intersections, splitted>>
    /\ UNCHANGED overlayVars
    /\ UNCHANGED unitVars

Naive ==
    /\ pc = "naive"
    /\ naiveRes' = IF NaiveRaises(segments) THEN <<>> ELSE NaiveIntersection(segments)
    /\ pc' = IF NaiveRaises(segments) THEN "failed" ELSE "sweep"
    /\ err' = IF NaiveRaises(segments) THEN "CollinearityError" ELSE err
    /\ UNCHANGED <<mode, setOrder, segments, queue, status, scores, intersections, splitted>>
    /\ UNCHANGED overlayVars
    /\ UNCHANGED unitVars

\* lines 39-44: build the queue, read its top event, create the empty status
SweepStart ==
    /\ pc = "sweep"
    /\ IF QueueMaximumRaises(InitializeEventQueue(segments, {}))
       THEN /\ pc' = "failed"
            /\ err' = "AttributeError"
            /\ UNCHANGED queue
       ELSE /\ pc' = "loop"
            /\ queue' = InitializeEventQueue(segments, {})
            /\ UNCHANGED err
    /\ status' = <<>>
    /\ scores' = <<>>
    /\ intersections' = <<>>
    /\ splitted' = <<>>
    /\ UNCHANGED <<mode, setOrder, segments, naiveRes>>
    /\ UNCHANGED overlayVars
    /\ UNCHANGED unitVars

ProcessEvent ==
    /\ pc = "loop"
    /\ queue # {}
    /\ LET Step(r) ==
               IF r.err # "none"
               THEN /\ pc' = "failed"
                    /\ err' = r.err
                    /\ UNCHANGED <<queue, status, scores, intersections, splitted>>
               ELSE /\ queue' = r.queue
                    /\ status' = r.status
                    /\ scores' = r.scores
                    /\ intersections' = r.inter
                    /\ splitted' = r.split
                    /\ UNCHANGED <<pc, err>>
       IN  Step(EventStep(queue, status, scores, intersections, splitted, setOrder))
    /\ UNCHANGED <<mode, setOrder, segments, naiveRes>>
    /\ UNCHANGED overlayVars
    /\ UNCHANGED unitVars

\* the loop ends: return intersections, splitted_segments
SweepReturn ==
    /\ pc = "loop"
    /\ queue = {}
    /\ pc' = IF mode = "overlay" THEN "vertices" ELSE "done"
    /\ UNCHANGED <<mode, err, setOrder, segments, naiveRes, queue, status, scores,
                   intersections, splitted>>
    /\ UNCHANGED overlayVars
    /\ UNCHANGED unitVars

\* run_overlay: the two DoublyConnectedEdgeList constructions
Construct ==
    /\ pc = "build"
    /\ LET Step(a, b) ==
               /\ dcel1' = a
               /\ dcel2' = IF a.err # "" THEN dcel2 ELSE b
               /\ IF a.err # "" \/ b.err # ""
                  THEN pc' = "failed" /\ err' = (IF a.err # "" THEN a.err ELSE b.err)
                  ELSE pc' = "merge" /\ UNCHANGED err
       IN  Step(build_dcel(segments1, dcel1.prefix), build_dcel(segments2, dcel2.prefix))
    /\ UNCHANGED <<mode, setOrder, segments1, segments2, overlay_dcel, aliased, overlapping_points,
                   splitted_edges, pos>>
    /\ UNCHANGED sweepVars
    /\ UNCHANGED unitVars

\* overlay() lines 23-43: merge, then the set of segments handed to the sweep
OverlayMerge ==
    /\ pc = "merge"
    /\ LET Step(m) ==
               /\ overlay_dcel' = m.dcel
               /\ overlapping_points' = m.overlapping_points
               /\ IF m.dcel.err # ""
                  THEN pc' = "failed" /\ err' = m.dcel.err /\ UNCHANGED segments
                  ELSE /\ pc' = "sweep"
                       /\ segments' = ListOf(SeqToSet(EdgeSegments(m.dcel, m.overlapping_points,
                                                                   1, <<>>)), setOrder)
                       /\ UNCHANGED err
       IN  Step(merge(dcel1, dcel2))
    /\ aliased' = SharedObjects(dcel1, dcel2)
    /\ dcel1' = Operand(dcel1, overlay_dcel', aliased')
    /\ dcel2' = Operand(dcel2, overlay_dcel', aliased')
    /\ UNCHANGED <<mode, setOrder, naiveRes, queue, status, scores, intersections, splitted,
                   segments1, segments2, splitted_edges, pos>>
    /\ UNCHANGED unitVars

\* overlay() lines 44-56: the new vertices, then the sub-edges of the split segments
OverlaySplit ==
    /\ pc = "vertices"
    /\ LET Step(r) ==
               /\ overlay_dcel' = r.dcel
               /\ splitted_edges' = r.splitted_edges
               /\ IF r.dcel.err # ""
                  THEN pc' = "failed" /\ err' = r.dcel.err
                  ELSE pc' = "edges" /\ UNCHANGED err
       IN  Step(split_segments_into_edges_at_intersections(
                    AddIntersectionVertices(overlay_dcel, overlapping_points, intersections, 1),
                    splitted))
    /\ pos' = 1
    /\ aliased' = aliased \ Rebound(overlay_dcel, overlay_dcel')
    /\ dcel1' = Operand(dcel1, overlay_dcel', aliased')
    /\ dcel2' = Operand(dcel2, overlay_dcel', aliased')
    /\ UNCHANGED <<mode, setOrder, segments1, segments2, overlapping_points>>
    /\ UNCHANGED sweepVars
    /\ UNCHANGED unitVars

\* overlay() lines 59-60: one iteration of the loop over splitted_edges
OverlayUpdateEdge ==
    /\ pc = "edges"
    /\ pos <= Len(splitted_edges)
    /\ LET Step(d1) ==
               /\ overlay_dcel' = d1
               /\ IF d1.err # ""
                  THEN pc' = "failed" /\ err' = d1.err /\ UNCHANGED pos
                  ELSE pos' = pos + 1 /\ UNCHANGED <<pc, err>>
       IN  Step(update_original_edge(overlay_dcel, overlapping_points, splitted_edges[pos].id,
                                     splitted_edges[pos].new_edges))
    /\ aliased' = aliased \ Rebound(overlay_dcel, overlay_dcel')
    /\ dcel1' = Operand(dcel1, overlay_dcel', aliased')
    /\ dcel2' = Operand(dcel2, overlay_dcel', aliased')
    /\ UNCHANGED <<mode, setOrder, segments1, segments2, overlapping_points, splitted_edges>>
    /\ UNCHANGED sweepVars
    /\ UNCHANGED unitVars

OverlayEdgesDone ==
    /\ pc = "edges"
    /\ pos > Len(splitted_edges)
    /\ pc' = "rotations"
    /\ pos' = 1
    /\ UNCHANGED <<mode, err, setOrder, segments1, segments2, dcel1, dcel2, overlay_dcel, aliased,
                   overlapping_points, splitted_edges>>
    /\ UNCHANGED sweepVars
    /\ UNCHANGED unitVars

\* overlay() lines 62-96: one iteration of the loop over intersections
OverlayUpdateIntersection ==
    /\ pc = "rotations"
    /\ pos <= Len(intersections)
    /\ LET Step(d1) ==
               /\ overlay_dcel' = d1
               /\ IF d1.err # ""
                  THEN pc' = "failed" /\ err' = d1.err /\ UNCHANGED pos
                  ELSE pos' = pos + 1 /\ UNCHANGED <<pc, err>>
       IN  Step(UpdateIntersection(overlay_dcel, overlapping_points, intersections[pos].point,
                                   intersections[pos].segs))
    /\ aliased' = aliased \ Rebound(overlay_dcel, overlay_dcel')
    /\ dcel1' = Operand(dcel1, overlay_dcel', aliased')
    /\ dcel2' = Operand(dcel2, overlay_dcel', aliased')
    /\ UNCHANGED <<mode, setOrder, segments1, segments2, overlapping_points, splitted_edges>>
    /\ UNCHANGED sweepVars
    /\ UNCHANGED unitVars

\* overlay() lines 98-101: assign the faces and return
OverlayFaces ==
    /\ pc = "rotations"
    /\ pos > Len(intersections)
    /\ LET Step(d1) ==
               /\ overlay_dcel' = d1
               /\ IF d1.err # ""
                  THEN pc' = "failed" /\ err' = d1.err
                  ELSE pc' = "done" /\ UNCHANGED err
       IN  Step(assign_faces(overlay_dcel))
    /\ aliased' = aliased \ Rebound(overlay_dcel, overlay_dcel')
    /\ dcel1' = Operand(dcel1, overlay_dcel', aliased')
    /\ dcel2' = Operand(dcel2, overlay_dcel', aliased')
    /\ UNCHANGED <<mode, setOrder, segments1, segments2, overlapping_points, splitted_edges, pos>>
    /\ UNCHANGED sweepVars
    /\ UNCHANGED unitVars

\* a RedBlackTree of int values under a sequence of insert and delete calls;
\* held is the set of values inserted and not since deleted, lastOp the last call
\* with the node it returned (Nil for None)
InitTree ==
    /\ mode = "tree"
    /\ pc = "tree"
    /\ InitIdle
    /\ InitUnits

TreeInsert ==
    /\ mode = "tree"
    /\ \E value \in Values :
            /\ tree' = insert(tree, value)
            /\ held' = held \cup {value}
            /\ lastOp' = [name |-> "insert", value |-> value, known |-> value \in held,
                          returned |-> InsertReturn(tree, value)]
    /\ UNCHANGED <<mode, pc, points, hashes, call>>
    /\ UNCHANGED sweepVars
    /\ UNCHANGED <<err, setOrder>>
    /\ UNCHANGED overlayVars

TreeDelete ==
    /\ mode = "tree"
    /\ \E value \in Values :
            /\ tree' = delete(tree, value)
            /\ held' = held \ {value}
            /\ lastOp' = [name |-> "delete", value |-> value, known |-> value \in held,
                          returned |-> Nil]
    /\ UNCHANGED <<mode, pc, points, hashes, call>>
    /\ UNCHANGED sweepVars
    /\ UNCHANGED <<err, setOrder>>
    /\ UNCHANGED overlayVars

\* p == q and hash(p), hash(q) for points = <<p, q>>
InitHash ==
    /\ mode = "hash"
    /\ pc = "hash"
    /\ InitIdle
    /\ tree = EmptyTree
    /\ held = {}
    /\ lastOp = NoCall
    /\ points \in {<<p, q>> : p \in HashPoints, q \in HashPoints}
    /\ hashes = <<>>
    /\ call = NoFind

Hash ==
    /\ mode = "hash"
    /\ pc = "hash"
    /\ \E equal \in PointDunderEq(points[1], points[2]) :
            hashes' = [equal |-> equal, p |-> PointHash(points[1]), q |-> PointHash(points[2])]
    /\ pc' = "hashed"
    /\ UNCHANGED <<mode, tree, held, lastOp, points, call>>
    /\ UNCHANGED sweepVars
    /\ UNCHANGED <<err, setOrder>>
    /\ UNCHANGED overlayVars

\* the events of q the sweep has still to pop once it has popped the one at p
Pending(q, p) == {e \in q : EventLt(e.point, p)}

\* the segments of a list that are not None
Present(segs) == SelectSeq(segs, LAMBDA s : s # NoSeg)

\* _find_new_event(event_queue, left, right, Line(0, p.y), p): the queue holds the
\* endpoint events of left, right and a third segment that come after p
InitFind ==
    /\ mode = "find"
    /\ pc = "call"
    /\ call \in {[left |-> a, right |-> b, event_point |-> p] :
                    a \in FindSegments, b \in FindSegments, p \in FindPoints}
    /\ call.left = NoSeg \/ call.left # call.right
    /\ queue \in {Pending(InitializeEventQueue(Present(<<call.left, call.right, other>>), {}),
                          call.event_point) : other \in FindSegments}
    /\ segments = <<>>
    /\ segments1 = <<>>
    /\ segments2 = <<>>
    /\ err = "none"
    /\ setOrder = "asc"
    /\ naiveRes = <<>>
    /\ status = <<>>
    /\ scores = <<>>
    /\ intersections = <<>>
    /\ splitted = <<>>
    /\ InitDcels
    /\ tree = EmptyTree
    /\ held = {}
    /\ lastOp = NoCall
    /\ points = <<>>
    /\ hashes = <<>>

Find ==
    /\ mode = "find"
    /\ pc = "call"
    /\ IF FindNewEventRaises(call.left, call.right)
       THEN /\ pc' = "raised"
            /\ err' = "CollinearityError"
            /\ UNCHANGED queue
       ELSE /\ pc' = "found"
            /\ queue' = FindNewEvent(queue, call.left, call.right, call.event_point.y,
                                     call.event_point)
            /\ UNCHANGED err
    /\ UNCHANGED <<mode, setOrder, segments, naiveRes, status, scores, intersections, splitted>>
    /\ UNCHANGED overlayVars
    /\ UNCHANGED unitVars

Init == InitIntersection \/ InitOverlay \/ InitPair \/ InitTree \/ InitHash \/ InitFind

Next ==
    \/ Intersect
    \/ Naive
    \/ SweepStart
    \/ ProcessEvent
    \/ SweepReturn
    \/ Construct
    \/ OverlayMerge
    \/ OverlaySplit
    \/ OverlayUpdateEdge
    \/ OverlayEdgesDone
    \/ OverlayUpdateIntersection
    \/ OverlayFaces
    \/ TreeInsert
    \/ TreeDelete
    \/ Hash
    \/ Find

Spec == Init /\ [][Next]_vars

\* ------------------------------------------------------------------------
\* Plane geometry the properties are stated in
\* ------------------------------------------------------------------------
\* twice the signed area of the triangle a, b, c
Orient(a, b, c) ==
    RSub(RMul(RSub(b.x, a.x), RSub(c.y, a.y)), RMul(RSub(b.y, a.y), RSub(c.x, a.x)))

Between(a, v, b) == (RLe(a, v) /\ RLe(v, b)) \/ (RLe(b, v) /\ RLe(v, a))

\* p is a point of the closed segment s
LiesOn(p, s) ==
    /\ Orient(s.p1, s.p2, p) = Zero
    /\ Between(s.p1.x, p.x, s.p2.x)
    /\ Between(s.p1.y, p.y, s.p2.y)

\* p is a point of s other than its endpoints
LiesInside(p, s) == LiesOn(p, s) /\ p # s.p1 /\ p # s.p2

SameSegment(s, t) == {s.p1, s.p2} = {t.p1, t.p2}

\* s and t lie on one line and share more than one point
CollinearOverlap(s, t) ==
    /\ Orient(s.p1, s.p2, t.p1) = Zero
    /\ Orient(s.p1, s.p2, t.p2) = Zero
    /\ \/ SameSegment(s, t)
       \/ LiesInside(t.p1, s) \/ LiesInside(t.p2, s)
       \/ LiesInside(s.p1, t) \/ LiesInside(s.p2, t)

\* distinct, non-degenerate segments, no two of which overlap collinearly
CleanInput(segs) ==
    /\ \A i \in 1..Len(segs) : segs[i].p1 # segs[i].p2
    /\ \A i, j \in 1..Len(segs) :
           i < j => ~SameSegment(segs[i], segs[j]) /\ ~CollinearOverlap(segs[i], segs[j])

\* where the lines through s and t cross, when they are not parallel
LinesCross(s, t) ==
    LET d1 == [x |-> RSub(s.p2.x, s.p1.x), y |-> RSub(s.p2.y, s.p1.y)]
        d2 == [x |-> RSub(t.p2.x, t.p1.x), y |-> RSub(t.p2.y, t.p1.y)]
        den == RSub(RMul(d1.x, d2.y), RMul(d1.y, d2.x))
        num == RSub(RMul(RSub(t.p1.x, s.p1.x), d2.y), RMul(RSub(t.p1.y, s.p1.y), d2.x))
    IN  IF den = Zero THEN {}
        ELSE {Point(RAdd(s.p1.x, RMul(RDiv(num, den), d1.x)),
                    RAdd(s.p1.y, RMul(RDiv(num, den), d1.y)))}

\* the input segments that contain p
SegmentsThrough(segs, p) == {i \in 1..Len(segs) : LiesOn(p, segs[i])}

\* the points lying on at least two segments of the list (finite without overlaps)
MeetingPoints(segs) ==
    LET ends == UNION {{segs[i].p1, segs[i].p2} : i \in 1..Len(segs)}
        crossings == UNION {LinesCross(segs[i], segs[j]) : i, j \in 1..Len(segs)}
    IN  {p \in ends \cup crossings : Cardinality(SegmentsThrough(segs, p)) >= 2}

Keys(inter) == {inter[i].point : i \in 1..Len(inter)}

IntersectionRunDone == mode = "intersection" /\ pc = "done"

\* sweep_line_intersection has returned (in overlay mode the run goes on from there)
SweepReturned == pc \in {"done", "vertices", "edges", "rotations"}

\* ------------------------------------------------------------------------
\* C1: on distinct, non-degenerate segments without collinear overlaps the sweep
\* returns as many intersection keys as the naive reference returns points
\* ------------------------------------------------------------------------
C1_SweepCountEqualsNaive ==
    (IntersectionRunDone /\ CleanInput(segments)) => Len(intersections) = Len(naiveRes)

\* ------------------------------------------------------------------------
\* C2: without collinear overlaps, p is a key of the returned intersections exactly
\* when p lies on at least two distinct input segments
\* ------------------------------------------------------------------------
C2_KeysAreMeetingPoints ==
    (IntersectionRunDone /\ CleanInput(segments)) => Keys(intersections) = MeetingPoints(segments)

\* ------------------------------------------------------------------------
\* C3: every key p of the returned intersections holds exactly the input segments
\* that contain p, each once, and p is one key however many segments meet there
\* ------------------------------------------------------------------------
FullSegmentSets ==
    \A i \in 1..Len(intersections) :
        LET e == intersections[i]
        IN  /\ \A a, b \in 1..Len(e.segs) : a # b => e.segs[a] # e.segs[b]
            /\ SeqToSet(e.segs) = {segments[j] : j \in SegmentsThrough(segments, e.point)}
            /\ \A j \in 1..Len(intersections) : j # i => intersections[j].point # e.point

C3_KeyHoldsAllSegmentsThrough == SweepReturned => FullSegmentSets

\* ------------------------------------------------------------------------
\* C4: the grid of two horizontal and two vertical segments gives exactly the keys
\* (3,0), (3,5), (7,0), (7,5), each with the horizontal and the vertical crossing there
\* ------------------------------------------------------------------------
GridExpected ==
    { [point |-> Pt(3, 0), segs |-> {Seg(0, 0, 10, 0), Seg(3, -1, 3, 6)}],
      [point |-> Pt(3, 5), segs |-> {Seg(0, 5, 10, 5), Seg(3, -1, 3, 6)}],
      [point |-> Pt(7, 0), segs |-> {Seg(0, 0, 10, 0), Seg(7, -1, 7, 6)}],
      [point |-> Pt(7, 5), segs |-> {Seg(0, 5, 10, 5), Seg(7, -1, 7, 6)}] }

C4_GridIntersections ==
    (mode = "intersection" /\ segments = GridInput) =>
        /\ pc # "failed"
        /\ pc = "done" =>
              /\ Len(intersections) = 4
              /\ \A i \in 1..4 : Len(intersections[i].segs) = 2
              /\ {[point |-> intersections[i].point, segs |-> SeqToSet(intersections[i].segs)] :
                      i \in 1..4} = GridExpected

C4_GridSwept == mode = "intersection" /\ segments = GridInput /\ pc = "done"

\* ------------------------------------------------------------------------
\* DCEL well-formedness
\* ------------------------------------------------------------------------
\* twin, next and prev of every half-edge name half-edges of the map
LinksPresent(d) ==
    \A e \in DOMAIN d.edges :
        /\ d.edges[e].twin \in DOMAIN d.edges
        /\ d.edges[e].next \in DOMAIN d.edges
        /\ d.edges[e].prev \in DOMAIN d.edges

LinksConsistent(d) ==
    \A e \in DOMAIN d.edges :
        /\ d.edges[d.edges[e].twin].twin = e
        /\ d.edges[d.edges[e].twin].origin = d.edges[d.edges[e].next].origin
        /\ d.edges[d.edges[e].next].prev = e
        /\ d.edges[d.edges[e].prev].next = e

WellLinked(d) == LinksPresent(d) /\ LinksConsistent(d)

\* the two subdivisions have been constructed
Constructed == mode = "overlay" /\ pc # "build" /\ dcel1.err = "" /\ dcel2.err = ""

OverlayReturned == mode = "overlay" /\ pc = "done"

RECURSIVE Reach(_, _, _)
\* the half-edges met from the set front by following next (done: already met)
Reach(d, front, done) ==
    IF front \subseteq done THEN done
    ELSE Reach(d, {d.edges[e].next : e \in front \ done} \cap DOMAIN d.edges, done \cup front)

\* the next-cycle of e
Cycle(d, e) == Reach(d, {e}, {})

FacePerCycle(d) ==
    /\ \A e \in DOMAIN d.edges : d.edges[e].incident_face # FNull
    /\ \A e, f \in DOMAIN d.edges :
           (d.edges[e].incident_face = d.edges[f].incident_face) <=> (f \in Cycle(d, e))

ExternalFaces(d) == {i \in 1..Len(d.faces) : d.faces[i].outer_component = ENull}

\* ------------------------------------------------------------------------
\* C5: in a constructed DCEL twin(twin(e)) = e, origin(twin(e)) = origin(next(e)),
\* prev(next(e)) = e, next(prev(e)) = e, and every twin/next/prev id is in the map
\* ------------------------------------------------------------------------
C5_ConstructedWellLinked == Constructed => WellLinked(dcel1) /\ WellLinked(dcel2)

\* two squares sharing a side have been built: vertices of degree three
C5_SharedSideBuilt ==
    Constructed /\ \E v \in DOMAIN dcel1.vertices : Len(dcel1.vertices[v].incident_edges) = 3

\* ------------------------------------------------------------------------
\* C6: after construction every half-edge has a face, the half-edges of one
\* next-cycle have the same face and those of different cycles different faces
\* ------------------------------------------------------------------------
C6_OneFacePerCycle == Constructed => FacePerCycle(dcel1) /\ FacePerCycle(dcel2)

C6_ThreeCyclesBuilt == Constructed /\ Len(dcel1.faces) = 3 /\ WellLinked(dcel1)

\* ------------------------------------------------------------------------
\* C7: a DCEL made by the constructor or by overlay has exactly one face whose
\* outer_component is null
\* ------------------------------------------------------------------------
C7_OneExternalFace ==
    /\ Constructed =>
           Cardinality(ExternalFaces(dcel1)) = 1 /\ Cardinality(ExternalFaces(dcel2)) = 1
    /\ OverlayReturned => Cardinality(ExternalFaces(overlay_dcel)) = 1

\* ------------------------------------------------------------------------
\* C8: in the DCEL overlay returns, every origin/twin/next/prev and every incident
\* edge id names an element of the output, the twin/next/prev identities hold and
\* every half-edge has a face
\* ------------------------------------------------------------------------
RefsPresent(d) ==
    /\ \A e \in DOMAIN d.edges : d.edges[e].origin \in DOMAIN d.vertices
    /\ \A v \in DOMAIN d.vertices :
           \A i \in 1..Len(d.vertices[v].incident_edges) :
               d.vertices[v].incident_edges[i] \in DOMAIN d.edges

C8_OverlayWellFormed ==
    OverlayReturned =>
        /\ RefsPresent(overlay_dcel)
        /\ WellLinked(overlay_dcel)
        /\ \A e \in DOMAIN overlay_dcel.edges : overlay_dcel.edges[e].incident_face # FNull

\* ------------------------------------------------------------------------
\* C9: no half-edge of the DCEL overlay returns is crossed: its open segment holds
\* no vertex of the output and meets no other edge than its twin
\* ------------------------------------------------------------------------
\* the half-edges whose two end vertices can be looked up
Drawn(d) ==
    {e \in DOMAIN d.edges :
        /\ d.edges[e].origin \in DOMAIN d.vertices
        /\ d.edges[e].twin \in DOMAIN d.edges
        /\ d.edges[d.edges[e].twin].origin \in DOMAIN d.vertices}

Span(d, e) ==
    Segment(d.vertices[d.edges[e].origin].coordinates,
            d.vertices[d.edges[d.edges[e].twin].origin].coordinates, NoId)

\* s and t cross at a point interior to both
ProperCross(s, t) ==
    /\ RLt(RMul(Orient(s.p1, s.p2, t.p1), Orient(s.p1, s.p2, t.p2)), Zero)
    /\ RLt(RMul(Orient(t.p1, t.p2, s.p1), Orient(t.p1, t.p2, s.p2)), Zero)

Crossed(d, e) ==
    \/ \E v \in DOMAIN d.vertices : LiesInside(d.vertices[v].coordinates, Span(d, e))
    \/ \E f \in Drawn(d) \ {e, d.edges[e].twin} :
           ProperCross(Span(d, e), Span(d, f)) \/ CollinearOverlap(Span(d, e), Span(d, f))

C9_NoCrossedEdge ==
    OverlayReturned => \A e \in Drawn(overlay_dcel) : ~Crossed(overlay_dcel, e)

\* ------------------------------------------------------------------------
\* C10: the overlay of the squares (0,0)-(2,2) and (1,1)-(3,3) has three
\* non-external faces (the common square and the two L-shaped remainders), one
\* external face, and two new vertices, at (2,1) and (1,2)
\* ------------------------------------------------------------------------
\* the corners met along the boundary of face i of d
Corners(d, i) ==
    {d.vertices[d.edges[e].origin].coordinates : e \in Cycle(d, d.faces[i].outer_component)}

NewVertices(d) == {v \in DOMAIN d.vertices : v[1] = "dcel"}

TwoSquares ==
    mode = "overlay" /\ segments1 = Shapes[1] /\ segments2 = Shapes[2] /\ dcel2.prefix = "s2"

C10_TwoSquaresOverlay ==
    TwoSquares =>
        /\ pc # "failed"
        /\ pc = "done" =>
              LET d == overlay_dcel
                  inner == (1..Len(d.faces)) \ ExternalFaces(d)
              IN  /\ Cardinality(inner) = 3
                  /\ Cardinality(ExternalFaces(d)) = 1
                  /\ Cardinality(NewVertices(d)) = 2
                  /\ {d.vertices[v].coordinates : v \in NewVertices(d)} = {Pt(2, 1), Pt(1, 2)}
                  /\ {Corners(d, i) : i \in inner} =
                         { {Pt(1, 1), Pt(2, 1), Pt(2, 2), Pt(1, 2)},
                           {Pt(0, 0), Pt(2, 0), Pt(2, 1), Pt(1, 1), Pt(1, 2), Pt(0, 2)},
                           {Pt(2, 1), Pt(3, 1), Pt(3, 3), Pt(1, 3), Pt(1, 2), Pt(2, 2)} }

C10_TwoSquaresOverlaid == TwoSquares /\ pc = "done"

\* ------------------------------------------------------------------------
\* C11: when the boundaries of s1 and s2 have no common point, overlay returns a
\* DCEL with exactly the vertices and half-edges of s1 and s2, their twin, next
\* and prev links unchanged, no new vertex, and as many non-external faces as s1
\* and s2 have together
\* ------------------------------------------------------------------------
\* the sides of the polygons of a list
Sides(polys) ==
    UNION {{Segment(polys[i][k][1], polys[i][k][2], NoId) : k \in 1..Len(polys[i])} :
               i \in 1..Len(polys)}

\* the closed segments s and t have a common point
Meet(s, t) ==
    \/ LiesOn(s.p1, t) \/ LiesOn(s.p2, t) \/ LiesOn(t.p1, s) \/ LiesOn(t.p2, s)
    \/ ProperCross(s, t)

Apart(polys1, polys2) == \A s \in Sides(polys1), t \in Sides(polys2) : ~Meet(s, t)

InnerFaces(d) == (1..Len(d.faces)) \ ExternalFaces(d)

Links(e) == [origin |-> e.origin, twin |-> e.twin, next |-> e.next, prev |-> e.prev]

C11_DisjointOverlaid == OverlayReturned /\ Apart(segments1, segments2)

\* ------------------------------------------------------------------------
\* C12: overlay(DCEL(A, "s1"), DCEL(B, "s2")) and overlay(DCEL(B, "s1"), DCEL(A, "s2"))
\* have the same number of non-external faces
\* ------------------------------------------------------------------------
\* the overlay of the same two polygon lists with the operands exchanged
Exchanged(ord) == overlay(build_dcel(segments2, "s1"), build_dcel(segments1, "s2"), ord)

C12_FaceCountSymmetric ==
    OverlayReturned =>
        \A ord \in {"asc", "desc"} :
            /\ Exchanged(ord).err = ""
            /\ Cardinality(InnerFaces(Exchanged(ord))) = Cardinality(InnerFaces(overlay_dcel))

\* an overlay with new vertices has returned, and so has the exchanged one
C12_CrossingOverlaid ==
    OverlayReturned /\ NewVertices(overlay_dcel) # {} /\ Exchanged(setOrder).err = ""

\* ------------------------------------------------------------------------
\* C13: overlay(s1, s2) with s1.prefix = s2.prefix raises DcelError before anything
\* is merged or swept: nothing is returned and s1 and s2 are as constructed
\* ------------------------------------------------------------------------
SamePrefix == Constructed /\ dcel1.prefix = dcel2.prefix

C13_SamePrefixRejected ==
    (SamePrefix /\ pc # "merge") =>
        /\ pc = "failed" /\ err = "DcelError"
        /\ overlay_dcel = Fail(EmptyDcel("dcel"), "DcelError")
        /\ overlapping_points = <<>>
        /\ segments = <<>> /\ queue = {} /\ intersections = <<>> /\ splitted = <<>>
        /\ dcel1 = build_dcel(segments1, "s1")
        /\ dcel2 = build_dcel(segments2, "s1")

\* overlay has been called on two subdivisions built with the prefix "s1"
C13_SamePrefixOverlaid == SamePrefix /\ pc = "failed" /\ Len(dcel2.edgeKeys) > 0

\* ------------------------------------------------------------------------
\* C14: when the input holds two segments that are collinear, overlap, share no
\* endpoint and are not both horizontal, sweep_line_intersection raises
\* CollinearityError and returns nothing, whatever else the input holds
\* ------------------------------------------------------------------------
NoCommonEndpoint(s, t) == {s.p1, s.p2} \cap {t.p1, t.p2} = {}

\* collinear, overlapping, without a common endpoint
LooseOverlap(s, t) == CollinearOverlap(s, t) /\ NoCommonEndpoint(s, t)

Horizontal(s) == s.p1.y = s.p2.y

UnsupportedPairs(segs) ==
    {pr \in (1..Len(segs)) \X (1..Len(segs)) :
        /\ pr[1] < pr[2]
        /\ LooseOverlap(segs[pr[1]], segs[pr[2]])
        /\ ~(Horizontal(segs[pr[1]]) /\ Horizontal(segs[pr[2]]))}

SweepEnded == mode = "intersection" /\ pc \in {"done", "failed"}

C14_SweepRejectsCollinearOverlap ==
    (SweepEnded /\ UnsupportedPairs(segments) # {}) =>
        pc = "failed" /\ err = "CollinearityError"

\* ------------------------------------------------------------------------
\* C15: naive_intersection raises CollinearityError on every input that holds two
\* segments that are collinear, overlap and share no endpoint, and returns a list
\* on every other input
\* ------------------------------------------------------------------------
LoosePairs(segs) ==
    {pr \in (1..Len(segs)) \X (1..Len(segs)) :
        pr[1] < pr[2] /\ LooseOverlap(segs[pr[1]], segs[pr[2]])}

\* naive_intersection has returned / has raised (the sweep has not begun)
NaiveReturned == mode = "intersection" /\ pc = "sweep"
NaiveRaised == mode = "intersection" /\ pc = "failed" /\ queue = {} /\ segments # <<>>

C15_NaiveRaisesOnCollinearOverlap ==
    /\ NaiveReturned => LoosePairs(segments) = {}
    /\ NaiveRaised => err = "CollinearityError" /\ LoosePairs(segments) # {}

\* ------------------------------------------------------------------------
\* C16: a.intersection(b) returns the point q exactly when q is the only point
\* common to a and b, returns none exactly when a and b have no common point, and
\* raises CollinearityError exactly when a and b are collinear, have a common
\* point and share no endpoint
\* ------------------------------------------------------------------------
\* the point common to s and t when there is exactly one
OnlyCommonPoint(s, t) ==
    IF CollinearOverlap(s, t) THEN {}
    ELSE {p \in {s.p1, s.p2, t.p1, t.p2} \cup LinesCross(s, t) : LiesOn(p, s) /\ LiesOn(p, t)}

HasCommonPoint(s, t) == CollinearOverlap(s, t) \/ OnlyCommonPoint(s, t) # {}

PairEnded == mode = "pair" /\ pc \in {"returned", "raised"}

C16_IntersectionOutcomes ==
    PairEnded =>
        LET a == segments[1]
            b == segments[2]
        IN  /\ (pc = "returned" /\ naiveRes # <<>>) <=> OnlyCommonPoint(a, b) # {}
            /\ (pc = "returned" /\ naiveRes # <<>>) => OnlyCommonPoint(a, b) = {naiveRes[1]}
            /\ (pc = "returned" /\ naiveRes = <<>>) <=> ~HasCommonPoint(a, b)
            /\ (pc = "raised") <=> LooseOverlap(a, b)

\* ------------------------------------------------------------------------
\* C17: sweep_line_intersection called with no segment fails while it reads the
\* top event of the empty event queue, and never returns a pair of empty maps
\* ------------------------------------------------------------------------
EmptySweepEnded == mode = "intersection" /\ segments = <<>> /\ pc \notin {"naive", "sweep"}

C17_EmptyInputRejected ==
    EmptySweepEnded =>
        /\ pc = "failed"
        /\ err = "AttributeError"
        /\ queue = {}
        /\ intersections = <<>> /\ splitted = <<>>

C17_EmptySweepFailed == EmptySweepEnded /\ pc = "failed"

\* ------------------------------------------------------------------------
\* C18: every list of the returned splitted_segments runs from the upper endpoint
\* of its segment to the lower one (strictly decreasing y, strictly increasing x on
\* a horizontal segment), holds no point twice, and holds only points of the
\* segment
\* ------------------------------------------------------------------------
Descends(s, p, q) == IF Horizontal(s) THEN RLt(p.x, q.x) ELSE RLt(q.y, p.y)

OrderedAlong(s, pts) ==
    /\ \A j \in 1..Len(pts) : LiesOn(pts[j], s)
    /\ \A j \in 1..Len(pts) : \A k \in 1..Len(pts) : j < k => pts[j] # pts[k]
    /\ \A j \in 1..(Len(pts) - 1) : Descends(s, pts[j], pts[j + 1])

SweepOfSegmentsReturned == mode = "intersection" /\ pc = "done"

C18_SplittedListsOrdered ==
    SweepOfSegmentsReturned =>
        \A i \in 1..Len(splitted) : OrderedAlong(splitted[i].seg, splitted[i].pts)

\* ------------------------------------------------------------------------
\* C19: two horizontal collinear segments overlapping on a nonzero interval from a
\* to b have both a and b in the intersections map with both segments, and both a
\* and b in the splitted_segments list of each of the two; (0,0)-(10,0) and
\* (5,0)-(15,0) give the lists [(0,0),(5,0),(10,0)] and [(5,0),(10,0),(15,0)]
\* ------------------------------------------------------------------------
LeftX(s) == IF RLt(s.p2.x, s.p1.x) THEN s.p2.x ELSE s.p1.x
RightX(s) == IF RLt(s.p2.x, s.p1.x) THEN s.p1.x ELSE s.p2.x

\* the two ends of the interval common to the horizontal segments s and t
OverlapFrom(s, t) == Point(IF RLt(LeftX(s), LeftX(t)) THEN LeftX(t) ELSE LeftX(s), s.p1.y)
OverlapTo(s, t) == Point(IF RLt(RightX(s), RightX(t)) THEN RightX(s) ELSE RightX(t), s.p1.y)

HorizontalOverlap(s, t) ==
    /\ Horizontal(s) /\ Horizontal(t) /\ s.p1.y = t.p1.y
    /\ RLt(OverlapFrom(s, t).x, OverlapTo(s, t).x)

HorizontalOverlaps(segs) ==
    {pr \in (1..Len(segs)) \X (1..Len(segs)) :
        pr[1] < pr[2] /\ HorizontalOverlap(segs[pr[1]], segs[pr[2]])}

\* s in intersections[p]
Reported(p, s) ==
    \E i \in 1..Len(intersections) :
        /\ intersections[i].point = p
        /\ \E k \in 1..Len(intersections[i].segs) : SameSegment(intersections[i].segs[k], s)

\* p in splitted_segments[s]
Listed(p, s) ==
    \E i \in 1..Len(splitted) :
        /\ SameSegment(splitted[i].seg, s)
        /\ \E k \in 1..Len(splitted[i].pts) : splitted[i].pts[k] = p

PointsOf(s) ==
    IF \E i \in 1..Len(splitted) : SameSegment(splitted[i].seg, s)
    THEN splitted[CHOOSE i \in 1..Len(splitted) : SameSegment(splitted[i].seg, s)].pts
    ELSE <<>>

C19_HorizontalOverlapRecorded ==
    SweepOfSegmentsReturned =>
        /\ \A pr \in HorizontalOverlaps(segments) :
              LET s == segments[pr[1]]
                  t == segments[pr[2]]
              IN  \A p \in {OverlapFrom(s, t), OverlapTo(s, t)} :
                      Reported(p, s) /\ Reported(p, t) /\ Listed(p, s) /\ Listed(p, t)
        /\ segments = OverlapInput =>
              /\ PointsOf(segments[1]) = <<Pt(0, 0), Pt(5, 0), Pt(10, 0)>>
              /\ PointsOf(segments[2]) = <<Pt(5, 0), Pt(10, 0), Pt(15, 0)>>

\* ------------------------------------------------------------------------
\* C20: at the return of sweep_line_intersection every point p lists itself in
\* splitted_segments[s] for every s in intersections[p]; and no event takes a
\* point out of a list it was appended to at an earlier event
\* ------------------------------------------------------------------------
OutputsAgree ==
    \A i \in 1..Len(intersections) :
        \A k \in 1..Len(intersections[i].segs) :
            Listed(intersections[i].point, intersections[i].segs[k])

\* every point of every list before the step is in the list of the same segment
\* after it
ListsKept ==
    \A i \in 1..Len(splitted) :
        \A k \in 1..Len(splitted[i].pts) :
            \E j \in 1..Len(splitted') :
                /\ SameSegment(splitted'[j].seg, splitted[i].seg)
                /\ \E m \in 1..Len(splitted'[j].pts) : splitted'[j].pts[m] = splitted[i].pts[k]

C20_OutputsAgreeAndListsKept ==
    /\ [](SweepOfSegmentsReturned => OutputsAgree)
    /\ [][pc = "loop" => ListsKept]_vars

\* ------------------------------------------------------------------------
\* C21: the rings read back from a constructed DCEL are the rings it was built
\* from: to each input ring corresponds a ring of dcel.segments with the same
\* directed edges in the same cyclic order, and dcel.segments has no other ring
\* ------------------------------------------------------------------------
Rotated(a, b, k) == \A i \in 1..Len(a) : b[i] = a[((i - 1 + k) % Len(a)) + 1]

SameRing(a, b) == Len(a) = Len(b) /\ \E k \in 0..(Len(a) - 1) : Rotated(a, b, k)

RoundTrip(polys, d) ==
    LET out == dcel_segments(d)
    IN  /\ Len(out) = Len(polys)
        /\ \A i \in 1..Len(polys) : \E j \in 1..Len(out) : SameRing(polys[i], out[j])
        /\ \A j \in 1..Len(out) : \E i \in 1..Len(polys) : SameRing(polys[i], out[j])

C21_SegmentsRoundTrip ==
    Constructed => RoundTrip(segments1, dcel1) /\ RoundTrip(segments2, dcel2)

C21_ClockwiseRingBuilt == Constructed /\ segments1 = Shapes[10] /\ Len(dcel_segments(dcel1)) = 1

\* ------------------------------------------------------------------------
\* C22: in a DCEL made by the constructor or returned by overlay the
\* incident_edges of a vertex are exactly the half-edges leaving the vertex's
\* coordinates, listed clockwise, and for cyclically consecutive e, f of the list
\* next(twin(e)) = f and prev(f) = twin(e)
\* ------------------------------------------------------------------------
\* the half-edges whose origin lies at the coordinates of vertex v
Leaving(d, v) ==
    {e \in DOMAIN d.edges : d.vertices[d.edges[e].origin].coordinates = d.vertices[v].coordinates}

\* some rotation of the list runs by decreasing angle (two half-edges of the same
\* direction may come in either order)
Clockwise(d, inc) ==
    \E k \in 0..(Len(inc) - 1) :
        \A i \in 1..(Len(inc) - 1) :
            ~AngleLt(Direction(d, inc[((i - 1 + k) % Len(inc)) + 1]),
                     Direction(d, inc[((i + k) % Len(inc)) + 1]))

LinkedAround(d, inc) ==
    \A i \in 1..Len(inc) :
        LET e == inc[i]
            f == inc[(i % Len(inc)) + 1]
        IN  /\ d.edges[d.edges[e].twin].next = f
            /\ d.edges[f].prev = d.edges[e].twin

Fans(d) ==
    /\ RefsPresent(d)
    /\ LinksPresent(d)
    /\ \A v \in DOMAIN d.vertices :
           LET inc == d.vertices[v].incident_edges
           IN  /\ SeqToSet(inc) = Leaving(d, v)
               /\ Cardinality(SeqToSet(inc)) = Len(inc)
               /\ Clockwise(d, inc)
               /\ LinkedAround(d, inc)

C22_IncidentEdgesClockwiseAndLinked ==
    /\ Constructed => Fans(dcel1) /\ Fans(dcel2)
    /\ OverlayReturned => Fans(overlay_dcel)

\* ------------------------------------------------------------------------
\* C23: from the outer_component of a face (for the external face, from the edge
\* of its inner_components) next leads back to the starting half-edge without
\* meeting a half-edge twice; the signed area of that cycle is positive for a
\* face that is not external and negative for the external face
\* ------------------------------------------------------------------------
RECURSIVE ComesBack(_, _, _, _)
\* next from cur reaches start before it repeats a half-edge or leaves the edges
ComesBack(d, start, cur, seen) ==
    IF cur = start THEN TRUE
    ELSE IF cur \in seen \/ cur \notin DOMAIN d.edges THEN FALSE
    ELSE ComesBack(d, start, d.edges[cur].next, seen \cup {cur})

\* the half-edge boundary() is started from for the face
StartOf(face) ==
    IF face.outer_component # ENull THEN face.outer_component ELSE face.inner_components[1]

CycleArea(d, e) == RDiv(AreaSum(d, boundary(d, e), 1), R(2))

FaceCyclesSigned(d) ==
    \A i \in 1..Len(d.faces) :
        LET e == StartOf(d.faces[i])
        IN  /\ e \in DOMAIN d.edges
            /\ ComesBack(d, e, d.edges[e].next, {e})
            /\ IF d.faces[i].outer_component # ENull
               THEN RLt(Zero, CycleArea(d, e))
               ELSE RLt(CycleArea(d, e), Zero)

C23_FaceCyclesCloseAndSigned ==
    /\ Constructed => FaceCyclesSigned(dcel1) /\ FaceCyclesSigned(dcel2)
    /\ OverlayReturned => FaceCyclesSigned(overlay_dcel)

\* ------------------------------------------------------------------------
\* C26: in a sweep over plain segments a point that is an endpoint of every
\* segment through it, these segments meeting nowhere else, is a key of the
\* intersections map exactly when at least three segments share it
\* ------------------------------------------------------------------------
EndingAt(segs, p) == {i \in 1..Len(segs) : p \in {segs[i].p1, segs[i].p2}}

\* the points where at least two segments end, that no segment passes through,
\* and whose segments have no other common point
SharedEndpoints(segs) ==
    {p \in UNION {{segs[i].p1, segs[i].p2} : i \in 1..Len(segs)} :
        /\ Cardinality(EndingAt(segs, p)) >= 2
        /\ SegmentsThrough(segs, p) = EndingAt(segs, p)
        /\ \A i \in EndingAt(segs, p) : \A j \in EndingAt(segs, p) :
               i # j => ~CollinearOverlap(segs[i], segs[j]) /\ ~SameSegment(segs[i], segs[j])}

C26_SharedEndpointReportedFromThree ==
    IntersectionRunDone =>
        \A p \in SharedEndpoints(segments) :
            p \in Keys(intersections) <=> Cardinality(EndingAt(segments, p)) >= 3

\* ------------------------------------------------------------------------
\* C29: the points popped by the main loop of the sweep come in strictly
\* descending sweep order: when an event has been processed every event left or
\* put in the queue lies lower, or at the same y and strictly to the right, so the
\* next point popped does and no point is popped twice
\* ------------------------------------------------------------------------
\* the step processes the top event of the queue and the loop goes on
EventProcessed == pc = "loop" /\ queue # {} /\ pc' = "loop"

QueueStaysBelow ==
    /\ \A e \in queue' : EventLt(e.point, QueueMaximum(queue).point)
    /\ queue' # {} => EventLt(QueueMaximum(queue').point, QueueMaximum(queue).point)

C29_PoppedPointsDescend == [][EventProcessed => QueueStaysBelow]_vars

\* a crossing found during the sweep has been popped and recorded
C29_CrossingProcessed ==
    /\ mode = "intersection" /\ pc = "loop" /\ queue # {}
    /\ \E p \in Keys(intersections) : EndingAt(segments, p) = {}

\* ------------------------------------------------------------------------
\* C30: the event queue never holds two events at one point; after
\* initialisation the event at an endpoint lists exactly the input segments
\* ending there; an event that stays in the queue keeps its segments, and when
\* segments are added to it it is an INTERSECTION event listing the old and the
\* new segments, each once
\* ------------------------------------------------------------------------
OnePerPoint(q) ==
    /\ \A e \in q : \A f \in q : e.point = f.point => e = f
    /\ \A e \in q : Cardinality(SeqToSet(e.segments)) = Len(e.segments)

Endpoints(segs) == UNION {{segs[i].p1, segs[i].p2} : i \in 1..Len(segs)}

QueueInitialised ==
    /\ {e.point : e \in queue'} = Endpoints(segments)
    /\ \A e \in queue' :
           SeqToSet(e.segments) = {segments[i] : i \in EndingAt(segments, e.point)}

\* the events other than the popped one are still there with all their segments
EventsMerged ==
    \A e \in queue \ {QueueMaximum(queue)} :
        \E f \in queue' :
            /\ f.point = e.point
            /\ SeqToSet(e.segments) \subseteq SeqToSet(f.segments)
            /\ f # e => f.type = "INTERSECTION"
            /\ \A t \in SeqToSet(f.segments) \ SeqToSet(e.segments) : LiesOn(f.point, t)

C30_OneEventPerPoint ==
    /\ [](OnePerPoint(queue))
    /\ [][(pc = "sweep" /\ pc' = "loop") => QueueInitialised]_vars
    /\ [][EventProcessed => EventsMerged]_vars

\* an event at a crossing lists three segments: the second pair was added to an
\* event already in the queue
C30_CrossingEventMerged ==
    /\ pc = "loop"
    /\ \E e \in queue : EndingAt(segments, e.point) = {} /\ Len(e.segments) >= 3

\* ------------------------------------------------------------------------
\* C24: insert of a value the tree holds returns the node holding it and
\* leaves the tree as it was (nodes, shape, colours, size); delete of a value
\* the tree does not hold leaves the tree and its size as they were.
\* ------------------------------------------------------------------------
InsertOfHeld == lastOp'.name = "insert" /\ lastOp'.value \in held

DeleteOfAbsent == lastOp'.name = "delete" /\ lastOp'.value \notin held

ReturnsHolder ==
    /\ lastOp'.returned \in DOMAIN tree.nodes
    /\ tree.nodes[lastOp'.returned].value = lastOp'.value

C24_EqualInsertAndAbsentDeleteKeepTree ==
    [][/\ InsertOfHeld => (tree' = tree /\ ReturnsHolder)
       /\ DeleteOfAbsent => tree' = tree]_vars

C24_EqualValueInserted ==
    mode = "tree" /\ lastOp.name = "insert" /\ lastOp.known /\ tree.size >= 3

\* ------------------------------------------------------------------------
\* C25: after any sequence of insert and delete the in-order traversal yields
\* exactly the values inserted and not since deleted, in strictly increasing
\* order; size is their number; is_empty holds iff there is none; search(v)
\* returns a node holding v iff v is one of them; maximum(root) returns the
\* node holding the greatest.
\* ------------------------------------------------------------------------
is_empty(t) == t.size = 0

Increasing(s) == \A i \in 1..(Len(s) - 1) : s[i] < s[i + 1]

Found(t, value) == TreeSearch(t, t.root, value) # Nil /\ t.nodes[TreeSearch(t, t.root, value)].value = value

SearchFinds(t, values) ==
    \A value \in 0..(MaxValue + 1) :
        IF value \in values THEN Found(t, value) ELSE TreeSearch(t, t.root, value) = Nil

MaximumIsGreatest(t, values) ==
    values # {} => \A value \in values : value <= t.nodes[TreeMaximum(t, t.root)].value

C25_TreeHoldsInsertedNotDeleted ==
    mode = "tree" =>
        /\ Increasing(Inorder(tree, tree.root))
        /\ {Inorder(tree, tree.root)[i] : i \in 1..Len(Inorder(tree, tree.root))} = held
        /\ tree.size = Cardinality(held)
        /\ is_empty(tree) <=> held = {}
        /\ SearchFinds(tree, held)
        /\ MaximumIsGreatest(tree, held)

C25_ValueDeletedAmongOthers ==
    mode = "tree" /\ lastOp.name = "delete" /\ lastOp.known /\ Cardinality(held) >= 3

\* ------------------------------------------------------------------------
\* C27: two Points that compare equal have equal hashes, also when a
\* coordinate of one lies below and that of the other at or above a value
\* where trunc_float steps.
\* ------------------------------------------------------------------------
C27_EqualPointsHashEqual ==
    (mode = "hash" /\ pc = "hashed" /\ hashes.equal) => hashes.p = hashes.q

\* ------------------------------------------------------------------------
\* C28: after any sequence of insert and delete the root is black, no red
\* node has a red child, every path from the root to a null leaf holds the
\* same number of black nodes, and the parent pointer of every node but the
\* root names the node one of whose children it is.
\* ------------------------------------------------------------------------
RECURSIVE BlackCount(_, _)
\* the number of black nodes on every path from x down to a null leaf, -1 if
\* two paths differ
BlackCount(t, x) ==
    IF x = Nil THEN 0
    ELSE IF BlackCount(t, t.nodes[x].left) = -1 \/ BlackCount(t, t.nodes[x].left) # BlackCount(t, t.nodes[x].right)
         THEN -1
         ELSE BlackCount(t, t.nodes[x].left) + (IF IsBlack(t, x) THEN 1 ELSE 0)

NoRedUnderRed(t) ==
    \A x \in DOMAIN t.nodes :
        IsRed(t, x) => IsBlack(t, t.nodes[x].left) /\ IsBlack(t, t.nodes[x].right)

ChildOfParent(t) ==
    \A x \in (DOMAIN t.nodes) \ {t.root} :
        /\ t.nodes[x].parent \in DOMAIN t.nodes
        /\ x \in {t.nodes[t.nodes[x].parent].left, t.nodes[t.nodes[x].parent].right}

C28_RedBlackProperties ==
    mode = "tree" =>
        /\ IsBlack(tree, tree.root)
        /\ NoRedUnderRed(tree)
        /\ BlackCount(tree, tree.root) # -1
        /\ ChildOfParent(tree)

C28_BlackNodeDeleted ==
    /\ mode = "tree" /\ lastOp.name = "delete" /\ lastOp.known
    /\ tree.size >= 4
    /\ \E x \in DOMAIN tree.nodes : IsRed(tree, x)

\* ------------------------------------------------------------------------
\* C37: Status.add loses no segment: after the status update of an event
\* the status holds every segment that was in it and does not end at the
\* event point, and every segment that starts at the event point, each
\* exactly once, also when two or more of them are horizontal.
\* ------------------------------------------------------------------------
\* the segments of the event on top of the queue that start at its point
UpperAtTop ==
    SelectSeq(QueueMaximum(queue).segments,
              LAMBDA s : PointEq(OrderByY(s)[1], QueueMaximum(queue).point))

\* the segments of the status that do not end at the event on top of the queue
StayingAtTop ==
    SelectSeq(status, LAMBDA s : ~(Contains(s, QueueMaximum(queue).point)
                                   /\ PointEq(OrderByY(s)[2], QueueMaximum(queue).point)))

Once(s, st) == Cardinality({i \in 1..Len(st) : SegEq(st[i], s)}) = 1

C37_AddLosesNoSegment ==
    [][EventProcessed =>
          \A s \in SeqToSet(UpperAtTop) \cup SeqToSet(StayingAtTop) : Once(s, status')]_vars

\* ------------------------------------------------------------------------
\* C38: a segment is in the status exactly from the event at its upper
\* endpoint until the event at its lower endpoint: between two events the
\* status holds, once each, the segments whose upper endpoint has been
\* processed and whose lower endpoint has not, and the status is empty when
\* the loop ends.
\* ------------------------------------------------------------------------
\* the event at p has left the queue
Processed(p) == QueueSearch(queue, p) = {}

Open(s) == Processed(OrderByY(s)[1]) /\ ~Processed(OrderByY(s)[2])

TimesInStatus(s) == Cardinality({i \in 1..Len(status) : SegEq(status[i], s)})

C38_StatusHoldsOpenSegments ==
    /\ pc = "loop" =>
          \A i \in 1..Len(segments) :
              TimesInStatus(segments[i]) = IF Open(segments[i]) THEN 1 ELSE 0
    /\ SweepReturned => status = <<>>

\* ------------------------------------------------------------------------
\* C34: a horizontal segment added to the status at an event is in the
\* status afterwards with the largest key of the segments added with it
\* plus EPS, and with start.x - EPS only if the status it is added to is
\* empty; a horizontal segment that stays in the status through a re-sort
\* keeps its score.
\* ------------------------------------------------------------------------
\* the segments of the status that hold the point of the event on top of the
\* queue without ending there
ContainedAtTop ==
    SelectSeq(status, LAMBDA s : Contains(s, QueueMaximum(queue).point)
                                 /\ ~PointEq(OrderByY(s)[2], QueueMaximum(queue).point))

\* the block handed to status.add at the event on top of the queue
BlockAtTop == SeqToSet(UpperAtTop) \cup SeqToSet(ContainedAtTop)

\* the status the block is added to: what status.remove leaves
RestAtTop == SelectSeq(status, LAMBDA s : ~Contains(s, QueueMaximum(queue).point))

\* the keys of the non-horizontal segments of the block on the reference line
BlockKeys ==
    {SortKey(s, QueueMaximum(queue).point.y, -1) : s \in {b \in BlockAtTop : ~SegIsHorizontal(b)}}

PlacedRight(h, key) ==
    IF BlockKeys # {}
    THEN \E top \in BlockKeys :
            /\ \A k \in BlockKeys : KeyLe(k, top)
            /\ key = <<top[1], RAdd(top[2], R(1))>>
    ELSE key = <<OrderByX(h)[1].x, R(-1)>> => RestAtTop = <<>>

C34_HorizontalPlacedRightAndKeepsScore ==
    [][EventProcessed =>
          /\ \A h \in {b \in BlockAtTop : SegIsHorizontal(b)} :
                \E i \in 1..Len(status') : SegEq(status'[i], h) /\ PlacedRight(h, scores'[i])
          /\ \A i \in 1..Len(status) :
                (SegIsHorizontal(status[i]) /\ SegIn(status[i], RestAtTop)) =>
                    \E j \in 1..Len(status') :
                        SegEq(status'[j], status[i]) /\ scores'[j] = scores[i]]_vars

\* ------------------------------------------------------------------------
\* C33: after the status update of every event at p the score list is as
\* long as the status and non-decreasing, and every non-horizontal segment
\* of the status, old or new, carries as score the x at which it meets the
\* reference line y = p.y - EPS, so that the status is ordered left to right
\* on that line.
\* ------------------------------------------------------------------------
NonDecreasing(sc) == \A i \in 1..(Len(sc) - 1) : KeyLe(sc[i], sc[i + 1])

KeyedAt(st, sc, y) ==
    \A i \in 1..Len(st) : ~SegIsHorizontal(st[i]) => sc[i] = SortKey(st[i], y, -1)

C33_StatusOrderedOnReferenceLine ==
    [][EventProcessed =>
          /\ Len(scores') = Len(status')
          /\ NonDecreasing(scores')
          /\ KeyedAt(status', scores', QueueMaximum(queue).point.y)]_vars

\* two segments of the status stand in the order opposite to that of their
\* upper endpoints: they have crossed and were re-keyed below the crossing
C33_CrossedSegmentsSwapped ==
    /\ pc = "loop"
    /\ \E i, j \in 1..Len(status) :
          /\ i < j
          /\ ~SegIsHorizontal(status[i]) /\ ~SegIsHorizontal(status[j])
          /\ RLt(OrderByY(status[j])[1].x, OrderByY(status[i])[1].x)
          /\ KeyLt(scores[i], scores[j])

\* ------------------------------------------------------------------------
\* C31: _find_new_event leaves the queue as it is when a neighbour is None
\* or the two do not intersect; otherwise the queue holds afterwards an
\* event at their intersection point q that lists both exactly when q is
\* strictly below the sweep line, or on it and strictly right of the event
\* point.
\* ------------------------------------------------------------------------
ListedAt(q, ip, a, b) ==
    \E e \in q : PointEq(e.point, ip) /\ SegIn(a, e.segments) /\ SegIn(b, e.segments)

Ahead(ip, p) == RLt(ip.y, p.y) \/ (Close(ip.y, p.y) /\ RLt(p.x, ip.x))

FindReturned == mode = "find" /\ pc = "call" /\ pc' = "found"

C31_EnqueuedIffAhead ==
    [][FindReturned =>
          IF call.left = NoSeg \/ call.right = NoSeg
          THEN queue' = queue
          ELSE IF SegIntersection(call.left, call.right) = NoPoint
          THEN queue' = queue
          ELSE ListedAt(queue', SegIntersection(call.left, call.right), call.left, call.right)
                   <=> Ahead(SegIntersection(call.left, call.right), call.event_point)]_vars

\* the call met an event already queued at the intersection point, on the sweep
\* line right of the event point, and added the two segments to it
C31_JoinedEventOnSweepLine ==
    /\ mode = "find" /\ pc = "found"
    /\ call.left # NoSeg /\ call.right # NoSeg
    /\ SegIntersection(call.left, call.right) # NoPoint
    /\ Close(SegIntersection(call.left, call.right).y, call.event_point.y)
    /\ \E e \in queue :
          /\ PointEq(e.point, SegIntersection(call.left, call.right))
          /\ Len(e.segments) >= 3

\* ------------------------------------------------------------------------
\* C32: sweep_line_intersection terminates: every iteration of the loop
\* takes the popped event out of the queue, and a sweep that has entered the
\* loop leaves it, returning the two maps or raising.
\* ------------------------------------------------------------------------
\* ENABLED <<ProcessEvent>>_vars: the condition of the while loop (line 46)
LoopGoesOn == pc = "loop" /\ queue # {}

\* a running call goes on: the body of the loop runs while its condition holds
\* (weak fairness of ProcessEvent, with its enabling condition written out), and
\* the function returns when it does not
LiveSpec ==
    Init /\ [][Next]_vars
        /\ WF_vars(SweepReturn)
        /\ ([]<>(~LoopGoesOn) \/ []<><<ProcessEvent>>_vars)

PoppedLeavesQueue == QueueSearch(queue', QueueMaximum(queue).point) = {}

C32_SweepTerminates ==
    /\ [][EventProcessed => PoppedLeavesQueue]_vars
    /\ (pc = "loop") ~> (pc \in {"done", "vertices", "failed"})

\* a sweep that processed an intersection event it had enqueued itself has returned
C32_ReturnedAfterEnqueuedEvent ==
    /\ pc = "done"
    /\ \E i \in 1..Len(intersections) :
          \A j \in 1..Len(segments) :
              /\ ~PointEq(segments[j].p1, intersections[i].point)
              /\ ~PointEq(segments[j].p2, intersections[i].point)

\* ------------------------------------------------------------------------
\* C39: Segment hashing agrees with Segment equality: two segments with the
\* same endpoints in either order are one dictionary key, so the keys of
\* splitted_segments never hold two entries for one pair of endpoints.
\* ------------------------------------------------------------------------
C39_EqualSegmentsOneKey ==
    \A i, j \in 1..Len(splitted) :
        SegEq(splitted[i].seg, splitted[j].seg) =>
            SameKey(splitted[i].seg, splitted[j].seg) /\ i = j

\* ------------------------------------------------------------------------
\* C35: in the DCEL returned by overlay, at every point that is a vertex of
\* both operands the vertex record of s1 and that of s2 carry the same
\* incident_edges list, and that list holds exactly the half-edges leaving
\* the point.
\* ------------------------------------------------------------------------
SharedFans(d, ov) ==
    \A p \in DOMAIN ov :
        /\ d.vertices[d.points[p]].incident_edges = d.vertices[ov[p]].incident_edges
        /\ SeqToSet(d.vertices[ov[p]].incident_edges) = Leaving(d, ov[p])

C35_SharedVerticesListSameEdges ==
    OverlayReturned => SharedFans(overlay_dcel, overlapping_points)


\* C36: overlay(s1, s2) does not modify its operands: from the end of the two
\* constructions on, after every step of overlay(), the step that raises
\* included, s1 and s2 (vertices with their incident_edges lists, edges, faces,
\* points) are what they were before the step
\* ------------------------------------------------------------------------
OverlayRuns == mode = "overlay" /\ pc \notin {"build", "done", "failed"}

====
